---- MODULE Spec2Model ----
(***************************************************************************)
(* State-machine model of the lock-free primitives of the HFT core:        *)
(*   - CircularBuffer      (SPSC ring)   include/common/circular_buffer.h  *)
(*   - MPSCCircularBuffer  (MPSC ring)   include/common/circular_buffer.h  *)
(*   - LockFreeHashMap                   include/common/hashmap.h          *)
(*   - MemoryPool                        include/common/memory_pool.h      *)
(* Every atomic load, store and CAS of the source is one step of the       *)
(* thread that performs it; plain (non-atomic) reads and writes of slots   *)
(* are steps of their own, so that a racing access shows as an interleaving.*)
(* Each component has its own specification; the variables of the other    *)
(* components stay at their initial values.                                *)
(***************************************************************************)
EXTENDS Integers, Naturals, Sequences, FiniteSets, Bags, TLC

\* ------------------------------------------------------------------ bounds
\* log2 of the SPSC ring capacity (the capacity must be a power of two).
SpscBits == 2
\* Number of push calls the SPSC producer starts.
MaxPush == 5
\* Payload values offered to push; 0 stands for a slot never written.
MaxValue == 2

\* log2 of the MPSC ring capacity.
MpscBits == 1
\* Number of producer threads of the MPSC ring.
NumProducers == 2
\* Number of push calls each MPSC producer starts.
MaxMPush == 2

\* log2 of the hash map capacity.
MapBits == 1
\* Largest key offered to the hash map (keys are 0..MaxKey, more than slots).
MaxKey == 3
\* Number of threads that use the hash map concurrently.
NumThreads == 2

\* Capacity of the memory pool.
PoolSize == 3
\* Number of threads that use the memory pool.
NumPoolThreads == 2
\* the free count above which no pointer is released a second time
MaxFreeCount == PoolSize

\* Number of levels of each side of an order book (MAX_DEPTH of the model).
BookDepth == 2
\* Prices offered to update_bid / update_ask are 1..MaxPrice.
MaxPrice == 2
\* Quantities offered to update_bid / update_ask are 0..MaxQuantity.
MaxQuantity == 1
\* Number of update calls made on a book that one thread updates and reads.
MaxUpdates == 3
\* Number of update calls the writer makes while readers take snapshots.
MaxRacingUpdates == 2
\* Number of update calls the alternating writer makes (bid, ask, bid, ...).
MaxAltUpdates == 4
\* Number of threads that take snapshots of a book.
NumReaders == 1

\* RiskLimits::max_order_size of the submitter.
MaxOrderSize == 2
\* RiskLimits::max_position of the submitter.
MaxPosition == 3
\* RiskLimits::max_notional of the submitter.
MaxNotional == 3
\* RiskLimits::max_orders_per_second of the submitter.
MaxOrdersPerSecond == 2
\* Prices of the orders submitted are 1..MaxOrderPrice.
MaxOrderPrice == 2
\* Number of submit_order calls.
MaxSubmits == 3
\* Number of submit_order calls when the rate limiter is examined.
MaxRateSubmits == 4
\* Clock ticks in one second of wall-clock time.
TicksPerSecond == 2
\* Number of ticks the wall clock advances.
MaxTicks == 3

\* Prices of the snapshots the strategy is given are 0 and
\* BasePrice..BasePrice + MaxPrice, so that one price step is about 10 bps.
BasePrice == 1000
\* Parameters::max_position of the strategy.
StratMaxPosition == 5
\* Parameters::quote_size of the strategy.
QuoteSize == 1
\* MIN_QUOTE_INTERVAL_NS of the strategy, in nanoseconds.
MinQuoteInterval == 1
\* Number of on_order_book_update calls.
MaxQuoteCalls == 2
\* Number of on_order_book_update calls made on an arbitrary strategy state.
MaxDecisionCalls == 1
\* Ticks of the counter before and between those calls.
MaxDecisionTicks == 1
\* Number of ticks the hardware counter advances between calls.
MaxTscTicks == 7
\* Largest number of ticks the counter advances inside one call.
MaxCallTicks == 1

\* log2 of the capacity of the handler's symbol map and of its book pool.
HandlerBits == 1
\* Number of letters symbols are made of ('A', 'B', ...).
NumChars == 2
\* Number of add_symbol calls.
MaxAdds == 3
\* Number of process_message calls.
MaxMessages == 2
\* Records in one datagram.
MaxRecords == 2
\* Datagrams that arrive at the receiver's socket.
MaxDatagrams == 2
\* Number of UDPReceiver::start calls.
MaxStarts == 2

Values == 1..MaxValue
NoValue == 0

\* ------------------------------------------------------------ SPSC ring
VARIABLES
    spsc_head,      \* CircularBuffer::head_
    spsc_tail,      \* CircularBuffer::tail_
    spsc_buffer,    \* CircularBuffer::buffer_
    p_pc,           \* producer position inside push
    p_item,         \* push: item
    p_current_tail, \* push: current_tail
    p_next_tail,    \* push: next_tail
    p_ret,          \* result of the producer's last finished push
    p_calls,        \* number of push calls started
    c_pc,           \* consumer position inside pop
    c_current_head, \* pop: current_head
    c_item,         \* pop: item (out parameter)
    c_ret,          \* result of the consumer's last finished pop
    spsc_pushed,    \* history: values of the pushes that returned true
    spsc_popped,    \* history: values of the pops that returned true
    spsc_drained    \* history: a pop found the ring empty and no push was accepted since

spscVars == <<spsc_head, spsc_tail, spsc_buffer, p_pc, p_item, p_current_tail,
              p_next_tail, p_ret, p_calls, c_pc, c_current_head, c_item,
              c_ret, spsc_pushed, spsc_popped, spsc_drained>>

spscProducer == <<p_pc, p_item, p_current_tail, p_next_tail, p_ret, p_calls>>
spscConsumer == <<c_pc, c_current_head, c_item, c_ret>>

\* ------------------------------------------------------------ MPSC ring
VARIABLES
    mpsc_head,      \* MPSCCircularBuffer::head_
    mpsc_tail,      \* MPSCCircularBuffer::tail_
    mpsc_sequence,  \* MPSCCircularBuffer::buffer_[i].sequence
    mpsc_data,      \* MPSCCircularBuffer::buffer_[i].data
    mp_pc,          \* per producer: position inside push
    mp_item,        \* per producer: push's item
    mp_tail,        \* per producer: push's local tail
    mp_pos,         \* per producer: push's pos
    mp_ret,         \* per producer: result of the last finished push
    mp_calls,       \* per producer: number of push calls started
    mc_pc,          \* consumer: position inside pop
    mc_head,        \* consumer: pop's local head
    mc_pos,         \* consumer: pop's pos
    mc_item,        \* consumer: pop's item (out parameter)
    mc_ret,         \* consumer: result of the last finished pop
    mpsc_pushed,    \* history: values of the pushes that returned true
    mpsc_popped,    \* history: values of the pops that returned true
    mpsc_drained    \* history: a pop found the ring empty while every producer
                    \* was outside push, and no push was started since

mpscProducers == <<mp_pc, mp_item, mp_tail, mp_pos, mp_ret, mp_calls>>
mpscConsumer == <<mc_pc, mc_head, mc_pos, mc_item, mc_ret>>
mpscShared == <<mpsc_head, mpsc_tail, mpsc_sequence, mpsc_data>>
mpscHistory == <<mpsc_pushed, mpsc_popped, mpsc_drained>>
mpscVars == <<mpscShared, mpscProducers, mpscConsumer, mpscHistory>>

\* ------------------------------------------------------ LockFreeHashMap
VARIABLES
    map_hash,       \* entries_[i].hash
    map_key,        \* entries_[i].key
    map_value,      \* entries_[i].value
    t_pc,           \* per thread: position inside insert or find
    t_op,           \* per thread: the operation called last ("insert", "find")
    t_key,          \* per thread: argument key
    t_val,          \* per thread: argument value (insert)
    t_h,            \* per thread: local h
    t_idx,          \* per thread: local idx
    t_i,            \* per thread: loop counter i
    t_ret,          \* per thread: result of the last finished call: "true" or
                    \* "false" (insert), "found" or "null" (find)
    t_slot,         \* per thread: the slot whose value a "found" result points to
    map_ref,        \* history: key -> value of the last insert that returned true
    t_prior         \* history, per thread: the slot that a find of the same
                    \* key had returned before the find in progress was
                    \* called, or -1

mapTable == <<map_hash, map_key, map_value>>
mapLocals == <<t_key, t_h, t_idx, t_i, t_val, t_prior>>
mapHistory == <<map_ref>>
mapResult == <<t_ret, t_slot>>
mapVars == <<mapTable, t_pc, t_op, mapLocals, mapResult, mapHistory>>

\* ----------------------------------------------------------- MemoryPool
VARIABLES
    pool_free_count, \* MemoryPool::free_count_
    pool_free_list,  \* MemoryPool::free_list_
    pool_allocated,  \* MemoryPool::allocated_
    a_pc,            \* per thread: position inside allocate or deallocate
    a_count,         \* per thread: local count
    a_idx,           \* per thread: local idx
    a_ret,           \* per thread: result of the last finished call: "ptr" or
                     \* "null" (allocate), "void" (deallocate)
    a_ptr,           \* per thread: the slot a "ptr" result points to
    pool_live,       \* history: the slots handed out by allocate and not yet
                     \* given back to deallocate
    a_avail,         \* history, per thread: available() when the current or
                     \* last allocate was called (0 for a deallocate)
    pool_issued,     \* history: the slots allocate has ever returned
    d_live           \* history, per thread: whether the pointer given to the
                     \* current or last deallocate was a live object

poolShared == <<pool_free_count, pool_free_list, pool_allocated>>
poolLocals == <<a_count, a_idx>>
poolResult == <<a_ret, a_ptr>>
poolHistory == <<pool_live, a_avail, pool_issued, d_live>>
poolVars == <<poolShared, a_pc, poolLocals, poolResult, poolHistory>>

\* ------------------------------------------------------------ OrderBook
VARIABLES
    book_levels,     \* OrderBook::bids_.levels, asks_.levels
    book_depth,      \* OrderBook::bids_.depth, asks_.depth
    book_sequence,   \* OrderBook::bids_.sequence, asks_.sequence
    w_pc,            \* writer: 0 between calls, else the statement of
                     \* update_level that comes next
    w_side,          \* writer: the book update_bid / update_ask passes on
    w_level,         \* writer: argument level
    w_price,         \* writer: argument price
    w_quantity,      \* writer: argument quantity
    r_pc,            \* per reader: position inside get_snapshot
    r_i,             \* per reader: loop index i
    r_field,         \* per reader: the field of the level being copied that
                     \* is already copied
    r_snap,          \* per reader: local snap, the value returned
    book_log,        \* history: the update calls made, in call order
    r_quiet,         \* history, per reader: no update call was made or in
                     \* progress since get_snapshot was called
    r_ask_at_call    \* history, per reader: asks_.sequence when get_snapshot
                     \* was called

bookShared == <<book_levels, book_depth, book_sequence>>
bookWriter == <<w_pc, w_side, w_level, w_price, w_quantity>>
bookReaders == <<r_pc, r_i, r_field, r_snap>>
bookHistory == <<book_log, r_quiet, r_ask_at_call>>
bookVars == <<bookShared, bookWriter, bookReaders, bookHistory>>

\* --------------------------------------------------------- OrderManager
VARIABLES
    om_position,              \* OrderManager::position_
    om_notional,              \* OrderManager::notional_
    om_orders_this_second,    \* OrderManager::orders_this_second_
    om_last_second_timestamp, \* OrderManager::last_second_timestamp_
    om_now,                   \* the wall clock, Timestamp::wall_clock_ns()
    om_order,                 \* the order of the last submit_order call
    om_calls,                 \* the number of submit_order calls made
    om_ret,                   \* the result of the last submit_order call:
                              \* "ok", "SEND_FAILED" or the check that
                              \* rejected the order
    om_sent,                  \* history: the number of send_order calls,
                              \* and the signed quantity and the notional
                              \* of the orders send_order has sent
    om_passed                 \* history: the wall-clock second of the last
                              \* order that passed the rate check, and the
                              \* number of orders that passed it in that
                              \* second

omState == <<om_position, om_notional, om_orders_this_second,
             om_last_second_timestamp>>
omHistory == <<om_sent, om_passed>>
omVars == <<omState, om_now, om_order, om_calls, om_ret, omHistory>>

\* ------------------------------------------------- MarketMakingStrategy
VARIABLES
    st_position,         \* MarketMakingStrategy::position_
    st_last_quote_time,  \* MarketMakingStrategy::last_quote_time_
    st_next_order_id,    \* MarketMakingStrategy::next_order_id_
    st_now,              \* the hardware counter, Timestamp::now()
    st_snapshot,         \* the snapshot of the last on_order_book_update
    st_calls,            \* the number of on_order_book_update calls made
    st_called_at,        \* history: the counter at line 41 of the last call
    tcp_orders           \* history: the orders the strategy handed to
                         \* TCPSender::send_order, in order, each with the
                         \* counter at the hand-over and the call it is of

stratState == <<st_position, st_last_quote_time, st_next_order_id>>
stratVars == <<stratState, st_now, st_snapshot, st_calls, st_called_at,
               tcp_orders>>

\* ---------------------------------------------------- MarketDataHandler
VARIABLES
    hd_entries,      \* order_book_map_: entries_ of the symbol map
    hd_free_count,   \* order_book_pool_: free_count_
    hd_allocated,    \* order_book_pool_: the slots with allocated_ set
    hd_books,        \* order_book_pool_: storage_, the book of each slot
    hd_callback,     \* callback_ holds a subscriber
    hd_call,         \* the last call: its name and its argument
    hd_counts,       \* the number of add_symbol and process_message calls
    hd_seen,         \* history: the number of invocations of the subscriber,
                     \* the book of the last one and the snapshot it took
    hd_long,         \* history: add_symbol was given a symbol longer than
                     \* MAX_KEY_LEN - 1
    hd_registered    \* history: the symbols add_symbol inserted a book for

hdState == <<hd_entries, hd_free_count, hd_allocated, hd_books, hd_callback>>
hdHistory == <<hd_seen, hd_long, hd_registered>>
hdVars == <<hdState, hd_call, hd_counts, hdHistory>>

\* ---------------------------------------------------------- UDPReceiver
VARIABLES
    rx_running,      \* running_
    rx_open,         \* socket_fd_ >= 0
    rx_pc,           \* receiver_thread_: "none" before start, the line of
                     \* receive_loop it is at, "exited" once it has returned
    rx_stop,         \* the position of the thread that calls stop():
                     \* "idle", "join" (running_ cleared), "returned"
    rx_queue,        \* the datagrams in the socket's receive buffer
    rx_counts        \* the number of start calls and of datagrams arrived

rxVars == <<rx_running, rx_open, rx_pc, rx_stop, rx_queue, rx_counts>>

vars == <<spscVars, mpscVars, mapVars, poolVars, bookVars, omVars, stratVars,
          hdVars, rxVars>>

\* the variables each component leaves alone
notSpsc == <<mpscVars, mapVars, poolVars, bookVars,
              omVars, stratVars, hdVars,
             rxVars>>
notMpsc == <<spscVars, mapVars, poolVars, bookVars,
              omVars, stratVars, hdVars,
             rxVars>>
notMap == <<spscVars, mpscVars, poolVars, bookVars,
             omVars, stratVars, hdVars,
            rxVars>>
notPool == <<spscVars, mpscVars, mapVars, bookVars,
              omVars, stratVars, hdVars,
             rxVars>>
notBook == <<spscVars, mpscVars, mapVars, poolVars,
              omVars, stratVars, hdVars,
             rxVars>>
notOm == <<spscVars, mpscVars, mapVars, poolVars,
            bookVars, stratVars, hdVars,
           rxVars>>
notHdRx == <<spscVars, mpscVars, mapVars, poolVars, bookVars, omVars,
             stratVars>>
notHd == <<notHdRx, rxVars>>
notRx == <<notHdRx, hdVars>>
notStrat == <<spscVars, mpscVars, mapVars, poolVars,
               bookVars, omVars, hdVars,
              rxVars>>

SPSC_SIZE == 2 ^ SpscBits

\* x & (SIZE - 1) for a power-of-two SIZE
SpscMask(x) == x % SPSC_SIZE

SpscInit ==
    /\ spsc_head = 0
    /\ spsc_tail = 0
    /\ spsc_buffer = [i \in 0..(SPSC_SIZE - 1) |-> NoValue]
    /\ p_pc = "idle"
    /\ p_item = NoValue
    /\ p_current_tail = 0
    /\ p_next_tail = 0
    /\ p_ret = "none"
    /\ p_calls = 0
    /\ c_pc = "idle"
    /\ c_current_head = 0
    /\ c_item = NoValue
    /\ c_ret = "none"
    /\ spsc_pushed = <<>>
    /\ spsc_popped = <<>>
    /\ spsc_drained = FALSE

\* push, line 22-23: load tail_, compute next_tail
SpscPushStart ==
    /\ p_pc = "idle"
    /\ p_calls < MaxPush
    /\ \E v \in Values : p_item' = v
    /\ p_current_tail' = spsc_tail
    /\ p_next_tail' = SpscMask(spsc_tail + 1)
    /\ p_calls' = p_calls + 1
    /\ p_ret' = "none"
    /\ p_pc' = "check"
    /\ UNCHANGED <<notSpsc, spsc_head, spsc_tail, spsc_buffer, spscConsumer,
                   spsc_pushed, spsc_popped, spsc_drained>>

\* push, line 26: the full test against the head value loaded
SpscIsFullBug(next_tail, head) == FALSE
SpscIsFull(next_tail, head) == next_tail = head

\* push, line 26-28: load head_, return false when full
SpscPushCheck ==
    /\ p_pc = "check"
    /\ IF SpscIsFull(p_next_tail, spsc_head)
         THEN p_pc' = "idle" /\ p_ret' = "false"
         ELSE p_pc' = "write" /\ p_ret' = p_ret
    /\ UNCHANGED <<notSpsc, spsc_head, spsc_tail, spsc_buffer, p_item, p_current_tail,
                   p_next_tail, p_calls, spscConsumer, spsc_pushed,
                   spsc_popped, spsc_drained>>

\* push, line 30: buffer_[current_tail] = item
SpscPushWrite ==
    /\ p_pc = "write"
    /\ spsc_buffer' = [spsc_buffer EXCEPT ![p_current_tail] = p_item]
    /\ p_pc' = "publish"
    /\ UNCHANGED <<notSpsc, spsc_head, spsc_tail, p_item, p_current_tail, p_next_tail,
                   p_ret, p_calls, spscConsumer, spsc_pushed, spsc_popped,
                   spsc_drained>>

\* push, line 31-32: tail_.store(next_tail), return true
SpscPushPublish ==
    /\ p_pc = "publish"
    /\ spsc_tail' = p_next_tail
    /\ spsc_pushed' = Append(spsc_pushed, p_item)
    /\ spsc_drained' = FALSE
    /\ p_ret' = "true"
    /\ p_pc' = "idle"
    /\ UNCHANGED <<notSpsc, spsc_head, spsc_buffer, p_item, p_current_tail, p_next_tail,
                   p_calls, spscConsumer, spsc_popped>>

\* pop, line 37: load head_
SpscPopStart ==
    /\ c_pc = "idle"
    /\ c_current_head' = spsc_head
    /\ c_ret' = "none"
    /\ c_pc' = "check"
    /\ UNCHANGED <<notSpsc, spsc_head, spsc_tail, spsc_buffer, spscProducer, c_item,
                   spsc_pushed, spsc_popped, spsc_drained>>

\* pop, line 40: the empty test against the tail value loaded
SpscIsEmptyBug(current_head, tail) == FALSE
SpscIsEmpty(current_head, tail) == current_head = tail

\* pop, line 40-42: load tail_, return false when empty
SpscPopCheck ==
    /\ c_pc = "check"
    /\ IF SpscIsEmpty(c_current_head, spsc_tail)
         THEN c_pc' = "idle" /\ c_ret' = "false" /\ spsc_drained' = TRUE
         ELSE c_pc' = "read" /\ c_ret' = c_ret /\ spsc_drained' = spsc_drained
    /\ UNCHANGED <<notSpsc, spsc_head, spsc_tail, spsc_buffer, spscProducer,
                   c_current_head, c_item, spsc_pushed, spsc_popped>>

\* pop, line 44: item = buffer_[current_head]
SpscPopRead ==
    /\ c_pc = "read"
    /\ c_item' = spsc_buffer[c_current_head]
    /\ c_pc' = "publish"
    /\ UNCHANGED <<notSpsc, spsc_head, spsc_tail, spsc_buffer, spscProducer,
                   c_current_head, c_ret, spsc_pushed, spsc_popped,
                   spsc_drained>>

\* pop, line 45-46: head_.store(current_head + 1), return true
SpscPopPublish ==
    /\ c_pc = "publish"
    /\ spsc_head' = SpscMask(c_current_head + 1)
    /\ spsc_popped' = Append(spsc_popped, c_item)
    /\ c_ret' = "true"
    /\ c_pc' = "idle"
    /\ UNCHANGED <<notSpsc, spsc_tail, spsc_buffer, spscProducer, c_current_head,
                   c_item, spsc_pushed, spsc_drained>>

SpscNext ==
    \/ SpscPushStart
    \/ SpscPushCheck
    \/ SpscPushWrite
    \/ SpscPushPublish
    \/ SpscPopStart
    \/ SpscPopCheck
    \/ SpscPopRead
    \/ SpscPopPublish

\* ---------------------------------------------------- SPSC ring: claims

\* s is a prefix of t
IsPrefix(s, t) ==
    /\ Len(s) <= Len(t)
    /\ \A i \in 1..Len(s) : s[i] = t[i]

\* C1: with one producer and one consumer, under every interleaving the
\* values delivered by successful pops are a prefix of the values accepted by
\* successful pushes (nothing lost, duplicated, reordered or read before it
\* was written), and the two sequences are equal once the consumer has
\* drained the ring.
C1_SpscFifo ==
    /\ IsPrefix(spsc_popped, spsc_pushed)
    /\ spsc_drained => spsc_popped = spsc_pushed

\* C1 witness: the ring has wrapped around and the consumer has drained it
\* after delivering more values than the ring has slots.
C1_Witness ==
    /\ spsc_drained
    /\ Len(spsc_popped) > SPSC_SIZE
    /\ \E i \in 1..Len(spsc_popped) : spsc_popped[i] # spsc_popped[1]

\* Number of elements the ring holds: accepted pushes not yet popped.
SpscHeld == Len(spsc_pushed) - Len(spsc_popped)

C2_Inv ==
    /\ SpscHeld <= SPSC_SIZE - 1
    /\ SpscHeld = SpscMask(spsc_tail - spsc_head + SPSC_SIZE)
    /\ (Len(spsc_popped) = 0 /\ p_ret = "false") => Len(spsc_pushed) = SPSC_SIZE - 1

C2_Step ==
    /\ (p_pc = "check" /\ p_pc' = "idle") =>
          /\ p_ret' = "false"
          /\ SpscMask(spsc_tail + 1) = spsc_head
          /\ UNCHANGED <<spsc_head, spsc_tail, spsc_buffer>>
    /\ (p_pc = "check" /\ p_pc' = "write") => SpscMask(spsc_tail + 1) # spsc_head
    /\ (c_pc = "check" /\ c_pc' = "idle") =>
          /\ c_ret' = "false"
          /\ spsc_head = spsc_tail
          /\ UNCHANGED <<spsc_head, spsc_tail, spsc_buffer>>
    /\ (c_pc = "check" /\ c_pc' = "read") => spsc_head # spsc_tail

\* C2: a ring of capacity N never holds more than N-1 elements; push returns
\* false exactly when (tail+1) mod N = head and pop returns false exactly when
\* head = tail; with no pop the first N-1 pushes succeed and the N-th fails;
\* a failed push or pop leaves head, tail and the slots unchanged.
C2_SpscCapacity == []C2_Inv /\ [][C2_Step]_vars

\* C2 witness: the N-th push on a ring nobody popped from has just failed.
C2_Witness ==
    /\ p_ret = "false"
    /\ Len(spsc_popped) = 0
    /\ Len(spsc_pushed) = SPSC_SIZE - 1
    /\ p_calls = SPSC_SIZE

\* ------------------------------------------------------------ MPSC ring

MPSC_SIZE == 2 ^ MpscBits
Producers == 1..NumProducers

\* x & (SIZE - 1) for a power-of-two SIZE
MpscMask(x) == x % MPSC_SIZE

\* constructor, line 77-79: the sequence stored into slot i
MpscInitialSequence(i) == 0

MpscInit ==
    /\ mpsc_head = 0
    /\ mpsc_tail = 0
    /\ mpsc_sequence = [i \in 0..(MPSC_SIZE - 1) |-> MpscInitialSequence(i)]
    /\ mpsc_data = [i \in 0..(MPSC_SIZE - 1) |-> NoValue]
    /\ mp_pc = [p \in Producers |-> "idle"]
    /\ mp_item = [p \in Producers |-> NoValue]
    /\ mp_tail = [p \in Producers |-> 0]
    /\ mp_pos = [p \in Producers |-> 0]
    /\ mp_ret = [p \in Producers |-> "none"]
    /\ mp_calls = [p \in Producers |-> 0]
    /\ mc_pc = "idle"
    /\ mc_head = 0
    /\ mc_pos = 0
    /\ mc_item = NoValue
    /\ mc_ret = "none"
    /\ mpsc_pushed = <<>>
    /\ mpsc_popped = <<>>
    /\ mpsc_drained = FALSE

\* push, line 84: tail = tail_.load()
MpscPushStart(p) ==
    /\ mp_pc[p] = "idle"
    /\ mp_calls[p] < MaxMPush
    /\ \E v \in Values : mp_item' = [mp_item EXCEPT ![p] = v]
    /\ mp_tail' = [mp_tail EXCEPT ![p] = mpsc_tail]
    /\ mp_calls' = [mp_calls EXCEPT ![p] = @ + 1]
    /\ mp_ret' = [mp_ret EXCEPT ![p] = "none"]
    /\ mp_pc' = [mp_pc EXCEPT ![p] = "load"]
    /\ mpsc_drained' = FALSE
    /\ UNCHANGED <<notMpsc, mpscShared, mp_pos, mpscConsumer, mpsc_pushed, mpsc_popped>>

\* push, line 89: diff = seq - tail
MpscPushDiff(seq, tail) == seq - tail

\* push, line 87-91, 99-105: load the slot's sequence and branch on diff
MpscPushLoad(p) ==
    /\ mp_pc[p] = "load"
    /\ LET pos == MpscMask(mp_tail[p])
           diff == MpscPushDiff(mpsc_sequence[pos], mp_tail[p])
       IN /\ mp_pos' = [mp_pos EXCEPT ![p] = pos]
          /\ IF diff = 0
               THEN mp_pc' = [mp_pc EXCEPT ![p] = "cas"] /\ mp_ret' = mp_ret
               ELSE IF diff < 0
                 THEN /\ mp_pc' = [mp_pc EXCEPT ![p] = "idle"]
                      /\ mp_ret' = [mp_ret EXCEPT ![p] = "false"]
                 ELSE mp_pc' = [mp_pc EXCEPT ![p] = "reload"] /\ mp_ret' = mp_ret
    /\ UNCHANGED <<notMpsc, mpscShared, mp_item, mp_tail, mp_calls, mpscConsumer,
                   mpscHistory>>

\* push, line 93-94: tail_.compare_exchange_weak(tail, tail + 1); a weak CAS
\* may fail although the values are equal, and a failed CAS reloads tail
MpscPushCas(p) ==
    /\ mp_pc[p] = "cas"
    /\ \/ /\ mpsc_tail = mp_tail[p]
          /\ mpsc_tail' = mp_tail[p] + 1
          /\ mp_pc' = [mp_pc EXCEPT ![p] = "write"]
          /\ UNCHANGED mp_tail
       \/ /\ mp_tail' = [mp_tail EXCEPT ![p] = mpsc_tail]
          /\ mp_pc' = [mp_pc EXCEPT ![p] = "load"]
          /\ UNCHANGED mpsc_tail
    /\ UNCHANGED <<notMpsc, mpsc_head, mpsc_sequence, mpsc_data, mp_item, mp_pos,
                   mp_ret, mp_calls, mpscConsumer, mpscHistory>>

\* push, line 95: buffer_[pos].data = item
MpscPushWrite(p) ==
    /\ mp_pc[p] = "write"
    /\ mpsc_data' = [mpsc_data EXCEPT ![mp_pos[p]] = mp_item[p]]
    /\ mp_pc' = [mp_pc EXCEPT ![p] = "publish"]
    /\ UNCHANGED <<notMpsc, mpsc_head, mpsc_tail, mpsc_sequence, mp_item, mp_tail,
                   mp_pos, mp_ret, mp_calls, mpscConsumer, mpscHistory>>

\* push, line 96-97: buffer_[pos].sequence.store(tail + 1); return true
MpscPushPublish(p) ==
    /\ mp_pc[p] = "publish"
    /\ mpsc_sequence' = [mpsc_sequence EXCEPT ![mp_pos[p]] = mp_tail[p] + 1]
    /\ mpsc_pushed' = Append(mpsc_pushed, mp_item[p])
    /\ mp_ret' = [mp_ret EXCEPT ![p] = "true"]
    /\ mp_pc' = [mp_pc EXCEPT ![p] = "idle"]
    /\ UNCHANGED <<notMpsc, mpsc_head, mpsc_tail, mpsc_data, mp_item, mp_tail, mp_pos,
                   mp_calls, mpscConsumer, mpsc_popped, mpsc_drained>>

\* the retry goes on with the tail it had
MpscPushReloadBug(p) ==
    /\ mp_pc[p] = "reload"
    /\ mp_pc' = [mp_pc EXCEPT ![p] = "load"]
    /\ UNCHANGED <<notMpsc, mpscShared, mp_item, mp_tail, mp_pos, mp_ret,
                   mp_calls, mpscConsumer, mpscHistory>>

\* push, line 104: tail = tail_.load()
MpscPushReload(p) ==
    /\ mp_pc[p] = "reload"
    /\ mp_tail' = [mp_tail EXCEPT ![p] = mpsc_tail]
    /\ mp_pc' = [mp_pc EXCEPT ![p] = "load"]
    /\ UNCHANGED <<notMpsc, mpscShared, mp_item, mp_pos, mp_ret, mp_calls,
                   mpscConsumer, mpscHistory>>

\* pop, line 111: head = head_.load()
MpscPopStart ==
    /\ mc_pc = "idle"
    /\ mc_head' = mpsc_head
    /\ mc_ret' = "none"
    /\ mc_pc' = "load"
    /\ UNCHANGED <<notMpsc, mpscShared, mpscProducers, mc_pos, mc_item, mpscHistory>>

\* pop, line 116: diff = seq - (head + 1)
MpscPopDiffBug(seq, head) == seq - head
MpscPopDiff(seq, head) == seq - (head + 1)

\* pop, line 114-118, 126-132: load the slot's sequence and branch on diff.
\* The reload of head_ at line 131 is part of this step: head_ is written by
\* the consumer alone, so no other thread's step can fall between the two.
MpscPopLoad ==
    /\ mc_pc = "load"
    /\ LET pos == MpscMask(mc_head)
           diff == MpscPopDiff(mpsc_sequence[pos], mc_head)
       IN /\ mc_pos' = pos
          /\ IF diff = 0
               THEN /\ mc_pc' = "cas"
                    /\ UNCHANGED <<mc_ret, mc_head, mpsc_drained>>
               ELSE IF diff < 0
                 THEN /\ mc_pc' = "idle"
                      /\ mc_ret' = "false"
                      /\ mpsc_drained' = (\A p \in Producers : mp_pc[p] = "idle")
                      /\ UNCHANGED mc_head
                 ELSE /\ mc_head' = mpsc_head
                      /\ UNCHANGED <<mc_pc, mc_ret, mpsc_drained>>
    /\ UNCHANGED <<notMpsc, mpscShared, mpscProducers, mc_item, mpsc_pushed,
                   mpsc_popped>>

\* pop, line 120-121: head_.compare_exchange_weak(head, head + 1)
MpscPopCas ==
    /\ mc_pc = "cas"
    /\ \/ /\ mpsc_head = mc_head
          /\ mpsc_head' = mc_head + 1
          /\ mc_pc' = "read"
          /\ UNCHANGED mc_head
       \/ /\ mc_head' = mpsc_head
          /\ mc_pc' = "load"
          /\ UNCHANGED mpsc_head
    /\ UNCHANGED <<notMpsc, mpsc_tail, mpsc_sequence, mpsc_data, mpscProducers, mc_pos,
                   mc_item, mc_ret, mpscHistory>>

\* pop, line 122: item = buffer_[pos].data
MpscPopRead ==
    /\ mc_pc = "read"
    /\ mc_item' = mpsc_data[mc_pos]
    /\ mc_pc' = "publish"
    /\ UNCHANGED <<notMpsc, mpscShared, mpscProducers, mc_head, mc_pos, mc_ret,
                   mpscHistory>>

\* pop, line 123-124: buffer_[pos].sequence.store(head + SIZE); return true
MpscPopPublish ==
    /\ mc_pc = "publish"
    /\ mpsc_sequence' = [mpsc_sequence EXCEPT ![mc_pos] = mc_head + MPSC_SIZE]
    /\ mpsc_popped' = Append(mpsc_popped, mc_item)
    /\ mc_ret' = "true"
    /\ mc_pc' = "idle"
    /\ UNCHANGED <<notMpsc, mpsc_head, mpsc_tail, mpsc_data, mpscProducers, mc_head,
                   mc_pos, mc_item, mpsc_pushed, mpsc_drained>>

MpscNext ==
    \/ \E p \in Producers : MpscPushStart(p)
    \/ \E p \in Producers : MpscPushLoad(p)
    \/ \E p \in Producers : MpscPushCas(p)
    \/ \E p \in Producers : MpscPushWrite(p)
    \/ \E p \in Producers : MpscPushPublish(p)
    \/ \E p \in Producers : MpscPushReload(p)
    \/ MpscPopStart
    \/ MpscPopLoad
    \/ MpscPopCas
    \/ MpscPopRead
    \/ MpscPopPublish

\* a thread that is scheduled goes on with the call it is in, and a weak
\* compare-exchange does not fail for ever while the values are equal; the
\* consumer and producer 1 are scheduled, every other producer may stall
\* anywhere, also between its compare-exchange on tail_ and its store of
\* the slot's sequence
MpscFairness ==
    /\ WF_vars(MpscPushLoad(1))
    /\ WF_vars(MpscPushCas(1))
    /\ SF_vars(MpscPushCas(1) /\ mp_pc'[1] = "write")
    /\ WF_vars(MpscPushWrite(1))
    /\ WF_vars(MpscPushPublish(1))
    /\ WF_vars(MpscPushReload(1))
    /\ WF_vars(MpscPopLoad)
    /\ WF_vars(MpscPopCas)
    /\ SF_vars(MpscPopCas /\ mc_pc' = "read")
    /\ WF_vars(MpscPopRead)
    /\ WF_vars(MpscPopPublish)

\* ---------------------------------------------------- MPSC ring: claims

\* number of occurrences of v in the sequence s
Count(s, v) == Cardinality({i \in 1..Len(s) : s[i] = v})

\* C3: for any number of producers and one consumer, once all producers have
\* finished and the consumer has drained the ring, the multiset of values
\* returned by successful pops equals the multiset of values whose push
\* returned true.
C3_MpscConservation ==
    mpsc_drained =>
        \A v \in Values \cup {NoValue} :
            Count(mpsc_popped, v) = Count(mpsc_pushed, v)

\* C3 witness: both producers have pushed concurrently, a value was accepted
\* and delivered, and the consumer has drained the ring.
C3_Witness ==
    /\ mpsc_drained
    /\ Len(mpsc_popped) >= 1
    /\ \A p \in Producers : mp_calls[p] >= 1

\* C4: in a freshly constructed MPSC ring the sequence field of slot i is i.
C4_FreshSequenceIsIndex ==
    (mpsc_tail = 0 /\ mpsc_head = 0 /\ \A p \in Producers : mp_calls[p] = 0)
        => \A i \in 0..(MPSC_SIZE - 1) : mpsc_sequence[i] = i

\* C5: push returns false only when the ring is full, that is when the
\* slots claimed by pushes exceed the completed pops by the capacity N; so N
\* consecutive pushes on a fresh ring all succeed.
C5_PushFailsOnlyWhenFull ==
    [][\A p \in Producers :
          (mp_pc[p] = "load" /\ mp_pc'[p] = "idle")
              => mpsc_tail - Len(mpsc_popped) >= MPSC_SIZE]_vars

\* ------------------------------------------------------ LockFreeHashMap

MAP_SIZE == 2 ^ MapBits
Slots == 0..(MAP_SIZE - 1)
Keys == 0..MaxKey
Threads == 1..NumThreads

\* Entry::EMPTY and Entry::TOMBSTONE
EMPTY == 0
TOMBSTONE == 1
\* K{} and V{}: the content of a slot's key and value before any write
DefaultKey == 0
DefaultValue == 0

\* hash(key): the raw 64-bit FNV-1a value of the key. insert and find read
\* it only through the remap to 2 and through h & (SIZE - 1), so the key
\* universe is given together with its raw hashes: key 0 hashes to 1
\* (TOMBSTONE), key 1 to 0 (EMPTY), key 2 to 2, so that three distinct keys
\* carry tag 2; key 3 hashes to 7 and key 4 to 11, tags whose home slot
\* differs from that of tag 2 and whose probe chain runs into it.
hash(key) ==
    IF key <= 1 THEN 1 - key
    ELSE IF key = 2 THEN 2
    ELSE 4 * key - 5

\* insert line 36-39, find line 72-75: reserve the tags EMPTY and TOMBSTONE
TagOfBug(key) == hash(key)
TagOf(key) == IF hash(key) = EMPTY \/ hash(key) = TOMBSTONE THEN 2 ELSE hash(key)

\* h & (SIZE - 1) for a power-of-two SIZE
MapMask(x) == x % MAP_SIZE

\* keys_equal(a, b)
keys_equalBug(a, b) == TRUE
keys_equal(a, b) == a = b

MapInit ==
    /\ map_hash = [i \in Slots |-> EMPTY]
    /\ map_key = [i \in Slots |-> DefaultKey]
    /\ map_value = [i \in Slots |-> DefaultValue]
    /\ t_pc = [t \in Threads |-> "idle"]
    /\ t_op = [t \in Threads |-> "none"]
    /\ t_key = [t \in Threads |-> DefaultKey]
    /\ t_val = [t \in Threads |-> DefaultValue]
    /\ t_h = [t \in Threads |-> 0]
    /\ t_idx = [t \in Threads |-> 0]
    /\ t_i = [t \in Threads |-> 0]
    /\ t_ret = [t \in Threads |-> "none"]
    /\ t_slot = [t \in Threads |-> 0]
    /\ t_prior = [t \in Threads |-> -1]

\* The reference dictionary is recorded for the keys of its domain: all keys
\* where one thread uses the map, none where several do.
RecordRef(k, v) ==
    IF k \in DOMAIN map_ref THEN [map_ref EXCEPT ![k] = v] ELSE map_ref

\* The slot that the last call of some thread, a find of k, has returned.
PriorFound(k) ==
    LET seen == {u \in Threads : /\ t_pc[u] = "idle"
                                 /\ t_op[u] = "find"
                                 /\ t_ret[u] = "found"
                                 /\ t_key[u] = k}
    IN IF seen = {} THEN -1 ELSE t_slot[CHOOSE u \in seen : TRUE]

MapSeqHistoryInit == map_ref = [k \in Keys |-> NoValue]

MapHistoryInit == map_ref = <<>>

\* return r: the locals of the call go out of scope; the key of a find stays
\* with its result
MapReturn(t, r) ==
    /\ t_pc' = [t_pc EXCEPT ![t] = "idle"]
    /\ t_ret' = [t_ret EXCEPT ![t] = r]
    /\ t_slot' = [t_slot EXCEPT ![t] = IF r = "found" THEN t_idx[t] ELSE 0]
    /\ t_key' = [t_key EXCEPT ![t] = IF t_op[t] = "find" THEN @ ELSE DefaultKey]
    /\ t_h' = [t_h EXCEPT ![t] = 0]
    /\ t_idx' = [t_idx EXCEPT ![t] = 0]
    /\ t_i' = [t_i EXCEPT ![t] = 0]
    /\ t_val' = [t_val EXCEPT ![t] = DefaultValue]
    /\ t_prior' = [t_prior EXCEPT ![t] = -1]

\* the loop bound of insert (line 44) and find (line 79): i < SIZE
MapLoopBound == MAP_SIZE

\* insert line 64-67, find line 90-93: idx = (idx + 1) & (SIZE - 1); ++i;
\* leave the loop with the result r when i reaches SIZE
MapProbe(t, again, r) ==
    IF t_i[t] + 1 < MapLoopBound
      THEN /\ t_idx' = [t_idx EXCEPT ![t] = MapMask(@ + 1)]
           /\ t_i' = [t_i EXCEPT ![t] = @ + 1]
           /\ t_pc' = [t_pc EXCEPT ![t] = again]
           /\ UNCHANGED <<t_key, t_h, t_val, t_prior, mapResult>>
      ELSE MapReturn(t, r)

\* insert, line 35-41
InsertStart(t) ==
    /\ t_pc[t] = "idle"
    /\ \E k \in Keys, v \in Values :
          /\ t_key' = [t_key EXCEPT ![t] = k]
          /\ t_val' = [t_val EXCEPT ![t] = v]
          /\ t_h' = [t_h EXCEPT ![t] = TagOf(k)]
          /\ t_idx' = [t_idx EXCEPT ![t] = MapMask(TagOf(k))]
    /\ t_op' = [t_op EXCEPT ![t] = "insert"]
    /\ t_i' = [t_i EXCEPT ![t] = 0]
    /\ t_ret' = [t_ret EXCEPT ![t] = "none"]
    /\ t_slot' = [t_slot EXCEPT ![t] = 0]
    /\ t_pc' = [t_pc EXCEPT ![t] = "ins_cas"]
    /\ UNCHANGED <<notMap, mapTable, mapHistory, t_prior>>

\* insert, line 45-49: compare_exchange_strong(EMPTY -> h) on the slot's hash
InsertCas(t) ==
    /\ t_pc[t] = "ins_cas"
    /\ IF map_hash[t_idx[t]] = EMPTY
         THEN /\ map_hash' = [map_hash EXCEPT ![t_idx[t]] = t_h[t]]
              /\ t_pc' = [t_pc EXCEPT ![t] = "ins_key"]
         ELSE /\ t_pc' = [t_pc EXCEPT ![t] = "ins_load"]
              /\ UNCHANGED map_hash
    /\ UNCHANGED <<notMap, map_key, map_value, t_op, mapLocals, mapResult,
                   mapHistory>>

\* insert, line 50: entries_[idx].key = key
InsertKey(t) ==
    /\ t_pc[t] = "ins_key"
    /\ map_key' = [map_key EXCEPT ![t_idx[t]] = t_key[t]]
    /\ t_pc' = [t_pc EXCEPT ![t] = "ins_val"]
    /\ UNCHANGED <<notMap, map_hash, map_value, t_op, mapLocals, mapResult,
                   mapHistory>>

\* insert, line 51-52: entries_[idx].value = value; return true
InsertVal(t) ==
    /\ t_pc[t] = "ins_val"
    /\ map_value' = [map_value EXCEPT ![t_idx[t]] = t_val[t]]
    /\ map_ref' = RecordRef(t_key[t], t_val[t])
    /\ MapReturn(t, "true")
    /\ UNCHANGED <<notMap, map_hash, map_key, t_op>>

\* insert, line 56: the slot is taken; does it carry this key's tag?
InsertLoad(t) ==
    /\ t_pc[t] = "ins_load"
    /\ IF map_hash[t_idx[t]] = t_h[t]
         THEN /\ t_pc' = [t_pc EXCEPT ![t] = "ins_cmp"]
              /\ UNCHANGED <<mapLocals, mapResult>>
         ELSE MapProbe(t, "ins_cas", "false")
    /\ UNCHANGED <<notMap, mapTable, t_op, mapHistory>>

\* insert, line 57: keys_equal(entries_[idx].key, key), a plain read of the key
InsertCmp(t) ==
    /\ t_pc[t] = "ins_cmp"
    /\ IF keys_equal(map_key[t_idx[t]], t_key[t])
         THEN /\ t_pc' = [t_pc EXCEPT ![t] = "ins_upd"]
              /\ UNCHANGED <<mapLocals, mapResult>>
         ELSE MapProbe(t, "ins_cas", "false")
    /\ UNCHANGED <<notMap, mapTable, t_op, mapHistory>>

\* insert, line 58-59: entries_[idx].value = value; return true
InsertUpdate(t) ==
    /\ t_pc[t] = "ins_upd"
    /\ map_value' = [map_value EXCEPT ![t_idx[t]] = t_val[t]]
    /\ map_ref' = RecordRef(t_key[t], t_val[t])
    /\ MapReturn(t, "true")
    /\ UNCHANGED <<notMap, map_hash, map_key, t_op>>

\* find, line 71-77
FindStart(t) ==
    /\ t_pc[t] = "idle"
    /\ \E k \in Keys :
          /\ t_key' = [t_key EXCEPT ![t] = k]
          /\ t_h' = [t_h EXCEPT ![t] = TagOf(k)]
          /\ t_idx' = [t_idx EXCEPT ![t] = MapMask(TagOf(k))]
          /\ t_prior' = [t_prior EXCEPT ![t] = PriorFound(k)]
    /\ t_val' = [t_val EXCEPT ![t] = DefaultValue]
    /\ t_op' = [t_op EXCEPT ![t] = "find"]
    /\ t_i' = [t_i EXCEPT ![t] = 0]
    /\ t_ret' = [t_ret EXCEPT ![t] = "none"]
    /\ t_slot' = [t_slot EXCEPT ![t] = 0]
    /\ t_pc' = [t_pc EXCEPT ![t] = "find_load"]
    /\ UNCHANGED <<notMap, mapTable, mapHistory>>

\* find, line 80-86: load the slot's hash; null at an EMPTY slot
FindLoad(t) ==
    /\ t_pc[t] = "find_load"
    /\ IF map_hash[t_idx[t]] = EMPTY
         THEN MapReturn(t, "null")
         ELSE IF map_hash[t_idx[t]] = t_h[t]
           THEN /\ t_pc' = [t_pc EXCEPT ![t] = "find_cmp"]
                /\ UNCHANGED <<mapLocals, mapResult>>
           ELSE MapProbe(t, "find_load", "null")
    /\ UNCHANGED <<notMap, mapTable, t_op, mapHistory>>

\* find, line 86-87: keys_equal(entries_[idx].key, key), a plain read of the
\* key; return &entries_[idx].value
FindCmp(t) ==
    /\ t_pc[t] = "find_cmp"
    /\ IF keys_equal(map_key[t_idx[t]], t_key[t])
         THEN MapReturn(t, "found")
         ELSE MapProbe(t, "find_load", "null")
    /\ UNCHANGED <<notMap, mapTable, t_op, mapHistory>>

\* one thread alone uses the map
MapSeqNext ==
    \/ InsertStart(1)
    \/ InsertCas(1)
    \/ InsertKey(1)
    \/ InsertVal(1)
    \/ InsertLoad(1)
    \/ InsertCmp(1)
    \/ InsertUpdate(1)
    \/ FindStart(1)
    \/ FindLoad(1)
    \/ FindCmp(1)

\* several threads use the map concurrently
MapNext ==
    \/ \E t \in Threads : InsertStart(t)
    \/ \E t \in Threads : InsertCas(t)
    \/ \E t \in Threads : InsertKey(t)
    \/ \E t \in Threads : InsertVal(t)
    \/ \E t \in Threads : InsertLoad(t)
    \/ \E t \in Threads : InsertCmp(t)
    \/ \E t \in Threads : InsertUpdate(t)
    \/ \E t \in Threads : FindStart(t)
    \/ \E t \in Threads : FindLoad(t)
    \/ \E t \in Threads : FindCmp(t)

\* --------------------------------------------------- hash map: claims

MapFull == \A i \in Slots : map_hash[i] # EMPTY
MapHolds(i, k) == map_hash[i] = TagOf(k) /\ map_key[i] = k
MapPresent(k) == \E i \in Slots : MapHolds(i, k)
MapFindReturned(t) == t_pc[t] = "idle" /\ t_op[t] = "find" /\ t_ret[t] # "none"

\* C6: used by one thread, find agrees with a reference dictionary: find(K)
\* returns the slot whose value is the one most recently inserted for K, and
\* null if K was never inserted; every inserted key occupies exactly one slot
\* (re-inserting a key takes no further slot). The formula does not assume
\* that fewer keys than slots are in use: it covers the full table too.
C6_MapAgreesWithDictionary ==
    /\ MapFindReturned(1) =>
          IF map_ref[t_key[1]] # NoValue
            THEN /\ t_ret[1] = "found"
                 /\ MapHolds(t_slot[1], t_key[1])
                 /\ map_value[t_slot[1]] = map_ref[t_key[1]]
            ELSE t_ret[1] = "null"
    /\ t_pc[1] = "idle" =>
          /\ Cardinality({i \in Slots : map_hash[i] # EMPTY})
               = Cardinality({k \in Keys : map_ref[k] # NoValue})
          /\ \A k \in Keys : map_ref[k] # NoValue =>
                Cardinality({i \in Slots : MapHolds(i, k)}) = 1

\* C6 witness: find returned a key that sits away from its home slot, behind
\* another key of the same tag, with a value that is not the first offered.
C6_Witness ==
    /\ MapFindReturned(1)
    /\ t_ret[1] = "found"
    /\ t_slot[1] # MapMask(TagOf(t_key[1]))
    /\ map_hash[MapMask(TagOf(t_key[1]))] = TagOf(t_key[1])
    /\ map_value[t_slot[1]] = MaxValue

MapFindReturns(t) == t_pc[t] \in {"find_load", "find_cmp"} /\ t_pc'[t] = "idle"

C7_Tags ==
    \A i \in Slots : map_hash[i] # EMPTY => map_hash'[i] = map_hash[i]

C7_Finds ==
    \A t \in Threads : MapFindReturns(t) =>
        /\ (t_ret'[t] = "found" /\ hash(t_key[t]) \in {EMPTY, TOMBSTONE})
              => map_hash[t_slot'[t]] = 2
        /\ t_prior[t] # -1 =>
              (t_ret'[t] = "found" /\ t_slot'[t] = t_prior[t])

\* C7: under any interleaving of insert and find, a slot whose tag has left
\* EMPTY keeps that tag, no slot carries TOMBSTONE, a key whose raw hash is 0
\* or 1 is found under tag 2, and once find(K) has returned a slot every
\* later find(K), one called after that return, returns that same slot.
C7_TagsStableFindsStable ==
    /\ [](\A i \in Slots : map_hash[i] # TOMBSTONE)
    /\ [][C7_Tags /\ C7_Finds]_vars

\* C8: on a full table, insert of an absent key returns false within SIZE
\* probes and changes no slot; insert of a present key returns true and
\* updates its value only; find of an absent key returns null.
C8_Step ==
    MapFull =>
      /\ (/\ t_pc[1] \in {"ins_cas", "ins_load", "ins_cmp"}
          /\ ~MapPresent(t_key[1])) =>
            /\ UNCHANGED mapTable
            /\ t_pc'[1] = "idle" => t_ret'[1] = "false"
      /\ (/\ t_pc[1] \in {"ins_cas", "ins_load", "ins_cmp", "ins_upd"}
          /\ MapPresent(t_key[1])) =>
            /\ UNCHANGED <<map_hash, map_key>>
            /\ t_pc'[1] = "idle" =>
                  /\ t_ret'[1] = "true"
                  /\ \A i \in Slots :
                        map_value'[i] = IF MapHolds(i, t_key[1])
                                          THEN t_val[1] ELSE map_value[i]
            /\ t_pc'[1] # "idle" => UNCHANGED map_value
      /\ (/\ t_pc[1] \in {"find_load", "find_cmp"}
          /\ ~MapPresent(t_key[1])) =>
            (t_pc'[1] = "idle" => t_ret'[1] = "null")

C8_FullTable == [](t_i[1] < MAP_SIZE) /\ [][C8_Step]_vars

\* C8 witness: an insert has just returned false on a full table.
C8_Witness ==
    /\ MapFull
    /\ t_pc[1] = "idle"
    /\ t_op[1] = "insert"
    /\ t_ret[1] = "false"

\* C9: a find that runs while another thread inserts returns null or a slot
\* whose key and value that insert has already written.
C9_FindSeesWrittenSlot ==
    \A t \in Threads :
        (MapFindReturned(t) /\ t_ret[t] = "found") =>
            /\ map_key[t_slot[t]] = t_key[t]
            /\ map_value[t_slot[t]] \in Values

\* ----------------------------------------------------------- MemoryPool

PoolSlots == 0..(PoolSize - 1)
PoolThreads == 1..NumPoolThreads
\* nullptr, among pointers given as slot indices
NullPtr == -1

\* constructor, line 16-22; allocated_ is value-initialised (line 95)
PoolInit ==
    /\ pool_free_list = [i \in PoolSlots |-> i]
    /\ pool_free_count = PoolSize
    /\ pool_allocated = [i \in PoolSlots |-> FALSE]
    /\ a_pc = [u \in PoolThreads |-> "idle"]
    /\ a_count = [u \in PoolThreads |-> 0]
    /\ a_idx = [u \in PoolThreads |-> 0]
    /\ a_ret = [u \in PoolThreads |-> "none"]
    /\ a_ptr = [u \in PoolThreads |-> NullPtr]
    /\ pool_live = {}
    /\ a_avail = [u \in PoolThreads |-> 0]
    /\ pool_issued = {}
    /\ d_live = [u \in PoolThreads |-> TRUE]

\* available(), line 78-80
available == pool_free_count

\* return r: the locals of the call go out of scope
PoolReturn(u, r, ptr) ==
    /\ a_pc' = [a_pc EXCEPT ![u] = "idle"]
    /\ a_ret' = [a_ret EXCEPT ![u] = r]
    /\ a_ptr' = [a_ptr EXCEPT ![u] = ptr]
    /\ a_count' = [a_count EXCEPT ![u] = 0]
    /\ a_idx' = [a_idx EXCEPT ![u] = 0]

\* allocate, line 36, 38 and 52: count = free_count_.load(); while (count > 0)
PoolHasFreeBug(count) == count > 1
PoolHasFree(count) == count > 0

PoolLoadCount(u) ==
    IF PoolHasFree(pool_free_count)
      THEN /\ a_count' = [a_count EXCEPT ![u] = pool_free_count]
           /\ a_pc' = [a_pc EXCEPT ![u] = "al_cas"]
           /\ UNCHANGED <<a_idx, poolResult>>
      ELSE PoolReturn(u, "null", NullPtr)

\* allocate, line 36-38 and 55
AllocStart(u) ==
    /\ a_pc[u] = "idle"
    /\ PoolLoadCount(u)
    /\ a_avail' = [a_avail EXCEPT ![u] = available]
    /\ UNCHANGED <<notPool, poolShared, pool_live, pool_issued, d_live>>

\* allocate, line 39: the free count a successful CAS stores
PoolCountAfterAllocBug(count) == count
PoolCountAfterAlloc(count) == count - 1

\* allocate, line 39-40: free_count_.compare_exchange_weak(count, count - 1);
\* a weak CAS may fail although the values are equal, and a failed CAS
\* stores the value it saw into count
AllocCas(u) ==
    /\ a_pc[u] = "al_cas"
    /\ \/ /\ pool_free_count = a_count[u]
          /\ pool_free_count' = PoolCountAfterAlloc(a_count[u])
          /\ a_pc' = [a_pc EXCEPT ![u] = "al_pop"]
          /\ UNCHANGED a_count
       \/ /\ a_count' = [a_count EXCEPT ![u] = pool_free_count]
          /\ a_pc' = [a_pc EXCEPT ![u] = "al_reload"]
          /\ UNCHANGED pool_free_count
    /\ UNCHANGED <<notPool, pool_free_list, pool_allocated, a_idx, poolResult,
                   poolHistory>>

\* allocate, line 52, 38 and 55: reload count and test it again
AllocReload(u) ==
    /\ a_pc[u] = "al_reload"
    /\ PoolLoadCount(u)
    /\ UNCHANGED <<notPool, poolShared, poolHistory>>

\* allocate, line 43: the entry of the free list that is popped
PoolTopBug(count) == 0
PoolTop(count) == count - 1

\* allocate, line 43: idx = free_list_[count - 1].load(); a count above the
\* capacity reads past the end of free_list_ (line 99), which is undefined
\* behaviour: idx is any value the modulo of line 66 can later produce
AllocPop(u) ==
    /\ a_pc[u] = "al_pop"
    /\ IF PoolTop(a_count[u]) \in PoolSlots
         THEN a_idx' = [a_idx EXCEPT
                           ![u] = pool_free_list[PoolTop(a_count[u])]]
         ELSE \E i \in PoolSlots : a_idx' = [a_idx EXCEPT ![u] = i]
    /\ a_pc' = [a_pc EXCEPT ![u] = "al_mark"]
    /\ UNCHANGED <<notPool, poolShared, a_count, poolResult, poolHistory>>

\* allocate, line 44-50: allocated_[idx] = true; construct the object in
\* storage_[idx]; return its address
AllocMark(u) ==
    /\ a_pc[u] = "al_mark"
    /\ pool_allocated' = [pool_allocated EXCEPT ![a_idx[u]] = TRUE]
    /\ pool_live' = pool_live \cup {a_idx[u]}
    /\ pool_issued' = pool_issued \cup {a_idx[u]}
    /\ PoolReturn(u, "ptr", a_idx[u])
    /\ UNCHANGED <<notPool, pool_free_count, pool_free_list, a_avail, d_live>>

\* deallocate, line 59-67, called with one of the pointers ptrs: a null
\* pointer returns at once; otherwise destroy the object and compute its
\* index. Nothing tests whether the slot is allocated.
deallocate(u, ptrs) ==
    /\ a_pc[u] = "idle"
    /\ \E ptr \in ptrs :
          IF ptr = NullPtr
            THEN /\ PoolReturn(u, "void", NullPtr)
                 /\ UNCHANGED <<pool_live, d_live>>
            ELSE /\ a_idx' = [a_idx EXCEPT ![u] = ptr]
                 /\ a_pc' = [a_pc EXCEPT ![u] = "de_flag"]
                 /\ a_ret' = [a_ret EXCEPT ![u] = "none"]
                 /\ a_ptr' = [a_ptr EXCEPT ![u] = NullPtr]
                 /\ pool_live' = pool_live \ {ptr}
                 /\ d_live' = [d_live EXCEPT ![u] = ptr \in pool_live]
                 /\ UNCHANGED a_count
    /\ a_avail' = [a_avail EXCEPT ![u] = 0]
    /\ UNCHANGED <<notPool, poolShared, pool_issued>>

\* The pointer is null or one that is currently allocated.
DeallocStart(u) == deallocate(u, pool_live \cup {NullPtr})

\* The pointer is null or any pointer allocate has returned, released
\* already or not; the calls stop once the free count is above MaxFreeCount.
DeallocIssued(u) ==
    /\ pool_free_count <= MaxFreeCount
    /\ deallocate(u, pool_issued \cup {NullPtr})

\* deallocate, line 69: allocated_[idx] = false
DeallocFlag(u) ==
    /\ a_pc[u] = "de_flag"
    /\ pool_allocated' = [pool_allocated EXCEPT ![a_idx[u]] = FALSE]
    /\ a_pc' = [a_pc EXCEPT ![u] = "de_load"]
    /\ UNCHANGED <<notPool, pool_free_count, pool_free_list, poolLocals,
                   poolResult, poolHistory>>

\* deallocate, line 72: count = free_count_.load()
DeallocLoad(u) ==
    /\ a_pc[u] = "de_load"
    /\ a_count' = [a_count EXCEPT ![u] = pool_free_count]
    /\ a_pc' = [a_pc EXCEPT ![u] = "de_store"]
    /\ UNCHANGED <<notPool, poolShared, a_idx, poolResult, poolHistory>>

\* deallocate, line 73: free_list_[count].store(idx); count is below the
\* capacity whenever the pointer released is a live one. Otherwise the store
\* goes past the end of free_list_ (line 99), which is undefined behaviour:
\* the array keeps its entries or one of them takes the value.
DeallocStore(u) ==
    /\ a_pc[u] = "de_store"
    /\ IF a_count[u] \in PoolSlots
         THEN pool_free_list' =
                  [pool_free_list EXCEPT ![a_count[u]] = a_idx[u]]
         ELSE \/ UNCHANGED pool_free_list
              \/ \E i \in PoolSlots :
                    pool_free_list' = [pool_free_list EXCEPT ![i] = a_idx[u]]
    /\ a_pc' = [a_pc EXCEPT ![u] = "de_add"]
    /\ UNCHANGED <<notPool, pool_free_count, pool_allocated, poolLocals,
                   poolResult, poolHistory>>

\* deallocate, line 74-75: free_count_.fetch_add(1)
DeallocAdd(u) ==
    /\ a_pc[u] = "de_add"
    /\ pool_free_count' = pool_free_count + 1
    /\ PoolReturn(u, "void", NullPtr)
    /\ UNCHANGED <<notPool, pool_free_list, pool_allocated, poolHistory>>

\* a single mutator uses the pool
PoolNext ==
    \/ AllocStart(1)
    \/ AllocCas(1)
    \/ AllocReload(1)
    \/ AllocPop(1)
    \/ AllocMark(1)
    \/ DeallocStart(1)
    \/ DeallocFlag(1)
    \/ DeallocLoad(1)
    \/ DeallocStore(1)
    \/ DeallocAdd(1)

\* allocate and deallocate run on every thread
PoolConcNext ==
    \E u \in PoolThreads :
        \/ AllocStart(u)
        \/ AllocCas(u)
        \/ AllocReload(u)
        \/ AllocPop(u)
        \/ AllocMark(u)
        \/ DeallocStart(u)
        \/ DeallocFlag(u)
        \/ DeallocLoad(u)
        \/ DeallocStore(u)
        \/ DeallocAdd(u)

\* a single mutator that may release a pointer more than once
PoolIssuedNext ==
    \/ AllocStart(1)
    \/ AllocCas(1)
    \/ AllocReload(1)
    \/ AllocPop(1)
    \/ AllocMark(1)
    \/ DeallocIssued(1)
    \/ DeallocFlag(1)
    \/ DeallocLoad(1)
    \/ DeallocStore(1)
    \/ DeallocAdd(1)

\* ------------------------------------------------------- pool: claims

\* C10: with a single mutator, between calls available() equals the
\* capacity minus the number of live objects, so that deallocating every
\* object of a cycle brings available() back to its value before the cycle.
C10_AvailableCountsFree ==
    a_pc[1] = "idle" => available = PoolSize - Cardinality(pool_live)

\* C10 witness: every object allocated has been given back, in an order that
\* left the free list permuted, and available() is the capacity again.
C10_Witness ==
    /\ a_pc[1] = "idle"
    /\ a_ret[1] = "void"
    /\ pool_live = {}
    /\ available = PoolSize
    /\ pool_free_list # [i \in PoolSlots |-> i]

\* an allocate call is in progress
PoolInAllocate == a_pc[1] \in {"al_cas", "al_reload", "al_pop", "al_mark"}

\* an allocate call has returned and no other call was made since
PoolAllocateReturned == a_pc[1] = "idle" /\ a_ret[1] \in {"null", "ptr"}

C11_Inv ==
    /\ PoolAllocateReturned => (a_ret[1] = "null" <=> a_avail[1] = 0)
    /\ PoolInAllocate => a_avail[1] > 0
    /\ DOMAIN pool_free_list = PoolSlots
    /\ DOMAIN pool_allocated = PoolSlots

C11_Step ==
    /\ (a_pc[1] \in {"idle", "al_reload"} /\ a_pc'[1] = "idle"
            /\ a_ret'[1] = "null")
         => UNCHANGED <<poolShared, pool_live>>
    /\ a_pc[1] = "de_add" => available' > 0

\* C11: with a single mutator, allocate returns null exactly when
\* available() was 0 when it was called; the failing call is one step that
\* leaves the free count, the free list, the allocated flags and the size
\* of the pool unchanged; and a completed deallocate leaves available()
\* above 0, so that the next allocate succeeds.
C11_NullIffExhausted == []C11_Inv /\ [][C11_Step]_vars

\* C11 witness: every slot is live and an allocate has just returned null.
C11_Witness ==
    /\ a_pc[1] = "idle"
    /\ a_ret[1] = "null"
    /\ a_avail[1] = 0
    /\ pool_live = PoolSlots

C12_Inv ==
    /\ \A i, j \in 0..(pool_free_count - 1) :
          /\ pool_free_list[i] \in PoolSlots \ pool_live
          /\ i # j => pool_free_list[i] # pool_free_list[j]
    /\ a_pc[1] = "idle" =>
          \A i \in PoolSlots : pool_allocated[i] <=> i \in pool_live

\* C12: with a single mutator, allocate never hands out a slot that is
\* live, the free-list entries below the free count are pairwise distinct
\* slots that are not live, and between calls allocated_ is true exactly
\* for the live slots, which are the ones the destructor destroys.
C12_SlotsDisjoint ==
    /\ []C12_Inv
    /\ [][a_pc[1] = "al_mark" => a_idx[1] \notin pool_live]_vars

\* C12 witness: two slots are live after slots were given back in an order
\* that permuted the free list.
C12_Witness ==
    /\ a_pc[1] = "idle"
    /\ Cardinality(pool_live) = 2
    /\ pool_free_list # [i \in PoolSlots |-> i]
    /\ a_ret[1] = "ptr"

\* the slots on the free-index stack: the entries below the free count
PoolFreeSlots ==
    {pool_free_list[i] : i \in PoolSlots \cap (0..(pool_free_count - 1))}

C38_Inv ==
    (\A u \in PoolThreads : a_pc[u] = "idle") =>
        /\ available = PoolSize - Cardinality(pool_live)
        /\ PoolSlots \ pool_live \subseteq PoolFreeSlots

C38_Step ==
    \A u \in PoolThreads :
        (a_pc[u] = "al_mark" /\ a_pc'[u] = "idle") => a_idx[u] \notin pool_live

\* C38: when allocate and deallocate run concurrently on different threads,
\* under every interleaving allocate never returns a slot that is live,
\* and once all calls have returned every slot that is not live is on the
\* free-index stack and available() equals the capacity minus the number
\* of live objects.
C38_LockFreeFreeList == []C38_Inv /\ [][C38_Step]_vars

C39_Inv ==
    /\ available <= PoolSize
    /\ \A i, j \in PoolSlots \cap (0..(pool_free_count - 1)) :
          i # j => pool_free_list[i] # pool_free_list[j]

C39_Step ==
    (a_pc[1] \in {"de_flag", "de_load", "de_store", "de_add"} /\ ~d_live[1])
        => UNCHANGED poolShared

\* C39: after any sequence of allocate and deallocate calls in which
\* deallocate is given null or any pointer allocate has returned, released
\* already or not, available() never exceeds the capacity, the entries of
\* the free-index stack are pairwise distinct, and no step of a deallocate
\* of a slot that is not allocated changes the free count, the free list or
\* the allocated flags.
C39_DoubleFreeIgnored == []C39_Inv /\ [][C39_Step]_vars

\* ------------------------------------------------------------ OrderBook

MAX_DEPTH == BookDepth
Sides == {"bid", "ask"}
Levels == 0..(MAX_DEPTH - 1)
Readers == 1..NumReaders
Prices == 1..MaxPrice
Quantities == 0..MaxQuantity

\* PriceLevel after reset(), order_book.h line 19-23
EmptyLevel == [price |-> 0, quantity |-> 0, order_count |-> 0]

\* Snapshot snap, line 47; every field the model keeps is assigned before
\* get_snapshot returns
EmptySnapshot ==
    [bids |-> [l \in Levels |-> EmptyLevel],
     asks |-> [l \in Levels |-> EmptyLevel],
     bid_depth |-> 0, ask_depth |-> 0, bid_sequence |-> 0, ask_sequence |-> 0]

\* constructor, order_book.cpp line 7-16; depth{0}, sequence{0}
BookInit ==
    /\ book_levels = [s \in Sides |-> [l \in Levels |-> EmptyLevel]]
    /\ book_depth = [s \in Sides |-> 0]
    /\ book_sequence = [s \in Sides |-> 0]
    /\ w_pc = 0
    /\ w_side = "bid"
    /\ w_level = 0
    /\ w_price = 0
    /\ w_quantity = 0
    /\ r_pc = [r \in Readers |-> "idle"]
    /\ r_i = [r \in Readers |-> 0]
    /\ r_field = [r \in Readers |-> "none"]
    /\ r_snap = [r \in Readers |-> EmptySnapshot]
    /\ book_log = <<>>
    /\ r_quiet = [r \in Readers |-> FALSE]
    /\ r_ask_at_call = [r \in Readers |-> 0]

\* update_level, line 33-43: its statements in program order
UpdateOrderBug == <<"sequence", "price", "quantity", "depth">>
UpdateOrder == <<"price", "quantity", "depth", "sequence">>

\* the writer is about to execute statement st of update_level
UpdateAt(st) == w_pc > 0 /\ UpdateOrder[w_pc] = st

\* go on to the next statement; update_level returns after the last one
UpdateAdvance == w_pc' = IF w_pc = Len(UpdateOrder) THEN 0 ELSE w_pc + 1

\* update_bid / update_ask, line 19 and 24: the bounds check
BookInRangeBug(level) == level <= MAX_DEPTH
BookInRange(level) == level < MAX_DEPTH

\* the call update_bid(level, price, quantity) (side "bid") or update_ask
\* (side "ask"), line 18-26: return at once when level is out of range, else
\* enter update_level
UpdateCall(side, level, price, quantity) ==
    /\ w_pc = 0
    /\ w_side' = side
    /\ w_level' = level
    /\ w_price' = price
    /\ w_quantity' = quantity
    /\ w_pc' = IF BookInRange(level) THEN 1 ELSE 0
    /\ book_log' = Append(book_log, [side |-> side, level |-> level,
                                     price |-> price, quantity |-> quantity])
    /\ r_quiet' = [r \in Readers |-> FALSE]
    /\ UNCHANGED <<notBook, bookShared, bookReaders, r_ask_at_call>>

\* a call of update_bid or update_ask with any arguments
UpdateAny ==
    \E side \in Sides, level \in 0..MAX_DEPTH, price \in Prices,
       quantity \in Quantities :
        UpdateCall(side, level, price, quantity)

\* the writer thread calls update_bid or update_ask at any time
UpdateStart ==
    /\ Len(book_log) < MaxRacingUpdates
    /\ UpdateAny

\* update_level, line 32-33: price_level.price = price
UpdatePrice ==
    /\ UpdateAt("price")
    /\ book_levels' = [book_levels EXCEPT ![w_side][w_level].price = w_price]
    /\ UpdateAdvance
    /\ UNCHANGED <<notBook, book_depth, book_sequence, w_side, w_level,
                   w_price, w_quantity, bookReaders, bookHistory>>

\* update_level, line 34: price_level.quantity = quantity
UpdateQuantity ==
    /\ UpdateAt("quantity")
    /\ book_levels' =
          [book_levels EXCEPT ![w_side][w_level].quantity = w_quantity]
    /\ UpdateAdvance
    /\ UNCHANGED <<notBook, book_depth, book_sequence, w_side, w_level,
                   w_price, w_quantity, bookReaders, bookHistory>>

\* update_level, line 37: the test that decides whether depth is stored
BookNeedsDepthBug(level, depth) == level > depth
BookNeedsDepth(level, depth) == level >= depth

\* update_level, line 38: the depth stored
BookNewDepthBug(level) == level
BookNewDepth(level) == level + 1

\* update_level, line 37-39: if (level >= depth.load()) depth.store(level + 1);
\* only the writer stores depth, so the load and the store are one step
UpdateDepth ==
    /\ UpdateAt("depth")
    /\ book_depth' =
          IF BookNeedsDepth(w_level, book_depth[w_side])
            THEN [book_depth EXCEPT ![w_side] = BookNewDepth(w_level)]
            ELSE book_depth
    /\ UpdateAdvance
    /\ UNCHANGED <<notBook, book_levels, book_sequence, w_side, w_level,
                   w_price, w_quantity, bookReaders, bookHistory>>

\* update_level, line 43: the value fetch_add stores
BookNextSequenceBug(sequence) == sequence
BookNextSequence(sequence) == sequence + 1

\* update_level, line 43: sequence.fetch_add(1, release)
UpdateSequence ==
    /\ UpdateAt("sequence")
    /\ book_sequence' =
          [book_sequence EXCEPT ![w_side] = BookNextSequence(@)]
    /\ UpdateAdvance
    /\ UNCHANGED <<notBook, book_levels, book_depth, w_side, w_level,
                   w_price, w_quantity, bookReaders, bookHistory>>

\* get_snapshot, line 47-50: snap.bid_sequence = bids_.sequence.load(acquire)
SnapStart(r) ==
    /\ r_pc[r] \in {"idle", "done"}
    /\ r_snap' = [r_snap EXCEPT ![r] =
          [EmptySnapshot EXCEPT !.bid_sequence = book_sequence["bid"]]]
    /\ r_pc' = [r_pc EXCEPT ![r] = "ask_seq"]
    /\ r_quiet' = [r_quiet EXCEPT ![r] = (w_pc = 0)]
    /\ r_ask_at_call' = [r_ask_at_call EXCEPT ![r] = book_sequence["ask"]]
    /\ UNCHANGED <<notBook, bookShared, bookWriter, r_i, r_field, book_log>>

\* get_snapshot, line 51: snap.ask_sequence = asks_.sequence.load(acquire)
SnapAskSequence(r) ==
    /\ r_pc[r] = "ask_seq"
    /\ r_snap' = [r_snap EXCEPT ![r].ask_sequence = book_sequence["ask"]]
    /\ r_pc' = [r_pc EXCEPT ![r] = "bid_depth"]
    /\ UNCHANGED <<notBook, bookShared, bookWriter, r_i, r_field, bookHistory>>

\* get_snapshot, line 54: snap.bid_depth = bids_.depth.load(relaxed)
SnapBidDepth(r) ==
    /\ r_pc[r] = "bid_depth"
    /\ r_snap' = [r_snap EXCEPT ![r].bid_depth = book_depth["bid"]]
    /\ r_pc' = [r_pc EXCEPT ![r] = "ask_depth"]
    /\ UNCHANGED <<notBook, bookShared, bookWriter, r_i, r_field, bookHistory>>

\* get_snapshot, line 55 and 59: snap.ask_depth = asks_.depth.load(relaxed);
\* i = 0
SnapAskDepth(r) ==
    /\ r_pc[r] = "ask_depth"
    /\ r_snap' = [r_snap EXCEPT ![r].ask_depth = book_depth["ask"]]
    /\ r_pc' = [r_pc EXCEPT ![r] = "copy_bid"]
    /\ r_i' = [r_i EXCEPT ![r] = 0]
    /\ UNCHANGED <<notBook, bookShared, bookWriter, r_field, bookHistory>>

\* the member of Snapshot that holds the levels of a side
SnapLevels(side) == IF side = "bid" THEN "bids" ELSE "asks"

\* get_snapshot, line 60 and 61: snap.bids[i] = bids_.levels[i] and
\* snap.asks[i] = asks_.levels[i]. The copy of a PriceLevel is not atomic
\* and races with the writer: price and quantity are read one at a time, in
\* either order, so the copy may be torn. order_count is never written
\* after construction and is copied with quantity. When both are
\* copied, control moves on to after.
SnapCopy(r, side, after) ==
    /\ \E f \in {"price", "quantity"} \ {r_field[r]} :
        /\ r_snap' = [r_snap EXCEPT ![r][SnapLevels(side)][r_i[r]] =
              IF f = "price"
                THEN [@ EXCEPT !.price = book_levels[side][r_i[r]].price]
                ELSE [@ EXCEPT
                        !.quantity = book_levels[side][r_i[r]].quantity,
                        !.order_count = book_levels[side][r_i[r]].order_count]]
        /\ IF r_field[r] = "none"
             THEN /\ r_field' = [r_field EXCEPT ![r] = f]
                  /\ UNCHANGED <<r_pc, r_i>>
             ELSE /\ r_field' = [r_field EXCEPT ![r] = "none"]
                  /\ after
    /\ UNCHANGED <<notBook, bookShared, bookWriter, bookHistory>>

\* get_snapshot, line 60
SnapCopyBid(r) ==
    /\ r_pc[r] = "copy_bid"
    /\ SnapCopy(r, "bid", r_pc' = [r_pc EXCEPT ![r] = "copy_ask"]
                            /\ UNCHANGED r_i)

\* get_snapshot, line 59-66: snap.asks[i] = asks_.levels[i]; ++i; after the
\* last level stamp the snapshot and return it
SnapCopyAsk(r) ==
    /\ r_pc[r] = "copy_ask"
    /\ SnapCopy(r, "ask",
          IF r_i[r] + 1 < MAX_DEPTH
            THEN /\ r_i' = [r_i EXCEPT ![r] = @ + 1]
                 /\ r_pc' = [r_pc EXCEPT ![r] = "copy_bid"]
            ELSE /\ r_i' = [r_i EXCEPT ![r] = 0]
                 /\ r_pc' = [r_pc EXCEPT ![r] = "done"])

\* a thread calls update_bid or update_ask after its get_snapshot returned
UpdateStartSeq ==
    /\ r_pc[1] \in {"idle", "done"}
    /\ Len(book_log) < MaxUpdates
    /\ UpdateAny

\* a thread calls get_snapshot after its update returned
SnapStartSeq ==
    /\ w_pc = 0
    /\ SnapStart(1)

\* one thread updates the book and takes snapshots between its updates
BookSeqNext ==
    \/ UpdateStartSeq
    \/ UpdatePrice
    \/ UpdateQuantity
    \/ UpdateDepth
    \/ UpdateSequence
    \/ SnapStartSeq
    \/ SnapAskSequence(1)
    \/ SnapBidDepth(1)
    \/ SnapAskDepth(1)
    \/ SnapCopyBid(1)
    \/ SnapCopyAsk(1)

\* the writer of test_order_book_concurrent, line 40-45, with any prices
\* such that each ask is at least the bid of its round: update_bid(0, b, q)
\* and update_ask(0, a, q) in turn
AltUpdateStart ==
    /\ Len(book_log) < MaxAltUpdates
    /\ \E price \in Prices :
          IF Len(book_log) % 2 = 0
            THEN UpdateCall("bid", 0, price, MaxQuantity)
            ELSE /\ price >= book_log[Len(book_log)].price
                 /\ UpdateCall("ask", 0, price, MaxQuantity)

\* Snapshot::best_bid, order_book.h line 61
best_bid(snap) == IF snap.bid_depth > 0 THEN snap.bids[0].price ELSE 0

\* numeric_limits<double>::max(), far above every price
PriceMax == 4 * (BasePrice + MaxPrice)

\* Snapshot::best_ask, order_book.h line 62
best_askBug(snap) == IF snap.ask_depth > 0 THEN snap.asks[0].price ELSE 0
best_ask(snap) == IF snap.ask_depth > 0 THEN snap.asks[0].price ELSE PriceMax

\* OrderBook::best_bid, order_book.h line 74-76
OrderBook_best_bid == book_levels["bid"][0].price

\* OrderBook::best_ask, order_book.h line 78-80
OrderBook_best_ask == book_levels["ask"][0].price

\* OrderBook::mid_price, order_book.h line 82-84, times two
OrderBook_mid_price_times2 == OrderBook_best_bid + OrderBook_best_ask

\* the alternating writer updates the book while reader threads take
\* snapshots
BookAltNext ==
    \/ AltUpdateStart
    \/ UpdatePrice
    \/ UpdateQuantity
    \/ UpdateDepth
    \/ UpdateSequence
    \/ \E r \in Readers :
          \/ SnapStart(r)
          \/ SnapAskSequence(r)
          \/ SnapBidDepth(r)
          \/ SnapAskDepth(r)
          \/ SnapCopyBid(r)
          \/ SnapCopyAsk(r)

\* a writer thread updates the book while reader threads take snapshots
BookNext ==
    \/ UpdateStart
    \/ UpdatePrice
    \/ UpdateQuantity
    \/ UpdateDepth
    \/ UpdateSequence
    \/ \E r \in Readers :
          \/ SnapStart(r)
          \/ SnapAskSequence(r)
          \/ SnapBidDepth(r)
          \/ SnapAskDepth(r)
          \/ SnapCopyBid(r)
          \/ SnapCopyAsk(r)

\* --------------------------------------------------------- OrderManager

\* RiskLimits limits_, order_manager.h line 23-28 and set_risk_limits
limits ==
    [max_order_size |-> MaxOrderSize, max_position |-> MaxPosition,
     max_notional |-> MaxNotional,
     max_orders_per_second |-> MaxOrdersPerSecond]

\* update_rate_limiter, line 109
ONE_SECOND_NS == TicksPerSecond

\* the wall clock counts from the epoch, which is long past
ClockStart == 2 * ONE_SECOND_NS

\* the wall-clock second a time lies in
SecondOf(now_ns) == now_ns \div ONE_SECOND_NS

\* the orders submit_order is given: any side and price, and quantities
\* from below zero to above max_order_size
OrderSides == {"BUY", "SELL"}
OrderPrices == 1..MaxOrderPrice
OrderQuantities == (0 - 1)..(MaxOrderSize + 1)

\* constructor, line 8-10; position_{0.0}, notional_{0.0},
\* orders_this_second_{0}, last_second_timestamp_{0}
OmInit ==
    /\ om_position = 0
    /\ om_notional = 0
    /\ om_orders_this_second = 0
    /\ om_last_second_timestamp = 0
    /\ om_now = ClockStart
    /\ om_order = [side |-> "BUY", price |-> 0, quantity |-> 0]
    /\ om_calls = 0
    /\ om_ret = "none"
    /\ om_sent = [calls |-> 0, net |-> 0, notional |-> 0]
    /\ om_passed = [second |-> 0, count |-> 0]

\* std::abs
Abs(x) == IF x < 0 THEN 0 - x ELSE x

\* check_order_size, line 68-70
check_order_sizeBug(size) == size <= limits.max_order_size
check_order_size(size) == size > 0 /\ size <= limits.max_order_size

\* check_position_limit line 74-80: the position the order would lead to
NewPosition(position, side, size) ==
    IF side = "BUY" THEN position + size ELSE position - size

\* check_position_limit, line 72-83
check_position_limit(side, size) ==
    Abs(NewPosition(om_position, side, size)) <= limits.max_position

\* update_rate_limiter, line 104-115: the counter and the timestamp it leaves
update_rate_limiter ==
    IF om_now - om_last_second_timestamp > ONE_SECOND_NS
      THEN [count |-> 0, last |-> om_now]
      ELSE [count |-> om_orders_this_second, last |-> om_last_second_timestamp]

\* check_rate_limit, line 88-90, on the counter update_rate_limiter left
RateLimitPasses(count) == count < limits.max_orders_per_second

\* check_rate_limit, line 93: the counter after an order passed the check
CountAfterPass(count) == count + 1

\* check_notional_limit, line 97-102
check_notional_limit(price, size) ==
    om_notional + price * size <= limits.max_notional

\* submit_order line 47-56: the position after send_order sent the order
FilledPositionBug(position, side, size) == position + size
FilledPosition(position, side, size) ==
    IF side = "BUY" THEN position + size ELSE position - size

\* history: one more order passed the rate check at the time om_now
PassedAt(passed) ==
    IF passed.second = SecondOf(om_now)
      THEN [second |-> passed.second, count |-> passed.count + 1]
      ELSE [second |-> SecondOf(om_now), count |-> 1]

\* submit_order returns without calling the transport
OmReturn(r) ==
    /\ om_ret' = r
    /\ UNCHANGED <<om_position, om_notional, om_sent>>

\* submit_order(order), line 16-59, with check_rate_limit line 85-95;
\* sent is what TCPSender::send_order returns
submit_order(order) ==
    /\ om_order' = order
    /\ om_calls' = om_calls + 1
    /\ IF ~check_order_size(order.quantity)
         THEN /\ OmReturn("ORDER_SIZE")
              /\ UNCHANGED <<om_orders_this_second, om_last_second_timestamp,
                             om_passed>>
         ELSE IF ~check_position_limit(order.side, order.quantity)
         THEN /\ OmReturn("POSITION_LIMIT")
              /\ UNCHANGED <<om_orders_this_second, om_last_second_timestamp,
                             om_passed>>
         ELSE
           /\ om_last_second_timestamp' = update_rate_limiter.last
           /\ IF ~RateLimitPasses(update_rate_limiter.count)
                THEN /\ om_orders_this_second' = update_rate_limiter.count
                     /\ OmReturn("RATE_LIMIT")
                     /\ UNCHANGED om_passed
                ELSE
                  /\ om_orders_this_second' =
                        CountAfterPass(update_rate_limiter.count)
                  /\ om_passed' = PassedAt(om_passed)
                  /\ IF ~check_notional_limit(order.price, order.quantity)
                       THEN OmReturn("NOTIONAL_LIMIT")
                       ELSE \E sent \in BOOLEAN :
                         /\ om_sent' =
                               [calls |-> om_sent.calls + 1,
                                net |-> IF ~sent THEN om_sent.net
                                  ELSE IF order.side = "BUY"
                                  THEN om_sent.net + order.quantity
                                  ELSE om_sent.net - order.quantity,
                                notional |-> IF sent
                                  THEN om_sent.notional
                                         + order.price * order.quantity
                                  ELSE om_sent.notional]
                         /\ om_position' =
                               IF sent
                                 THEN FilledPosition(om_position, order.side,
                                                     order.quantity)
                                 ELSE om_position
                         /\ om_ret' = IF sent THEN "ok" ELSE "SEND_FAILED"
                         /\ UNCHANGED om_notional

\* the submitter thread calls submit_order
OmCall(max_calls) ==
    /\ om_calls < max_calls
    /\ \E side \in OrderSides, price \in OrderPrices,
          quantity \in OrderQuantities :
            submit_order([side |-> side, price |-> price,
                          quantity |-> quantity])
    /\ UNCHANGED <<notOm, om_now>>

\* wall-clock time passes between calls
ClockTick ==
    /\ om_now < ClockStart + MaxTicks
    /\ om_now' = om_now + 1
    /\ UNCHANGED <<notOm, omState, om_order, om_calls, om_ret, omHistory>>

SubmitOrder == OmCall(MaxSubmits)

OmNext ==
    \/ SubmitOrder
    \/ ClockTick

\* the same calls, enough of them to fill two windows of the rate limiter
SubmitOrderInWindows == OmCall(MaxRateSubmits)

OmRateNext ==
    \/ SubmitOrderInWindows
    \/ ClockTick

\* ------------------------------------------------- MarketMakingStrategy

\* Parameters params_, strategy.h line 29-35, as main.cpp line 80-84 sets them
params == [quote_size |-> QuoteSize, max_position |-> StratMaxPosition]

\* should_requote, line 36: the widest spread quoted, in basis points
MAX_SPREAD_BPS == 10

\* should_requote, line 45
MIN_QUOTE_INTERVAL_NS == MinQuoteInterval

\* Timestamp::to_nanoseconds, timestamp.h line 44-49: tsc_freq is 3.0e9, so
\* three ticks of the counter are one nanosecond
TscPerNs == 3
to_nanoseconds(tsc) == tsc \div TscPerNs

\* the counter has been running since boot
TscStart == TscPerNs * MIN_QUOTE_INTERVAL_NS

\* the snapshots on_order_book_update is given (line 21): each side empty,
\* or with a level 0 whose price is 0 (never written) or a market price
StratPrices == {0} \cup {BasePrice + p : p \in 0..MaxPrice}
SnapshotOf(bd, bp, ad, ap) ==
    [EmptySnapshot EXCEPT !.bid_depth = bd, !.bids[0].price = bp,
                          !.ask_depth = ad, !.asks[0].price = ap]
QuoteSnapshots ==
    {SnapshotOf(bd, IF bd = 0 THEN 0 ELSE bp, ad, IF ad = 0 THEN 0 ELSE ap) :
        bd \in 0..1, bp \in StratPrices, ad \in 0..1, ap \in StratPrices}

\* position_ is initialised to 0 and no code writes it
StratPositions == (0 - StratMaxPosition - 1)..(StratMaxPosition + 1)

\* the counter, and the history of the calls
StratInitRest ==
    /\ st_next_order_id = 1
    /\ st_now = TscStart
    /\ st_snapshot = EmptySnapshot
    /\ st_calls = 0
    /\ st_called_at = 0
    /\ tcp_orders = <<>>

\* constructor, strategy.cpp line 13-17; position_{0.0},
\* last_quote_time_{0}, next_order_id_{1} (strategy.h line 54-59)
StratInit ==
    /\ st_position = 0
    /\ st_last_quote_time = 0
    /\ StratInitRest

\* the quoting decision is also examined at every position and with the
\* last quote at any time up to now
StratInitAnyState ==
    /\ st_position \in StratPositions
    /\ st_last_quote_time \in 0..TscStart
    /\ StratInitRest

\* Snapshot::mid_price, order_book.h line 63, times two
MidPriceTimes2(snap) == best_bid(snap) + best_ask(snap)

\* Snapshot::spread, order_book.h line 64
spread(snap) == best_ask(snap) - best_bid(snap)

\* Snapshot::spread_bps() > bps, order_book.h line 65-68:
\* mid > 0 ? spread / mid * 10000 : 0
spread_bps_above(snap, bps) ==
    IF MidPriceTimes2(snap) > 0
      THEN 2 * spread(snap) * 10000 > bps * MidPriceTimes2(snap)
      ELSE 0 > bps

\* should_requote, line 46: the quote interval has passed
QuoteIntervalPassedBug(now, last_quote) ==
    ~(now - last_quote < MIN_QUOTE_INTERVAL_NS)
QuoteIntervalPassed(now, last_quote) ==
    ~(to_nanoseconds(now - last_quote) < MIN_QUOTE_INTERVAL_NS)

\* should_requote, line 34-51
should_requote(snap, now) ==
    /\ ~spread_bps_above(snap, MAX_SPREAD_BPS)
    /\ QuoteIntervalPassed(now, st_last_quote_time)

\* update_quotes, line 108: position < max_position * 0.8
QuotesBidBug(position) == 10 * position <= 8 * params.max_position
QuotesBid(position) == 10 * position < 8 * params.max_position

\* update_quotes, line 112: position > -max_position * 0.8
QuotesAsk(position) == 10 * position > 0 - 8 * params.max_position

\* generate_order_id, strategy.h line 69-71: the counter after fetch_add(1);
\* the id returned is the counter before it
NextOrderIdBug(next_order_id) == next_order_id
NextOrderId(next_order_id) == next_order_id + 1

\* update_quotes line 84-103: the order handed to send_order
QuoteOrder(id, side, sent_at) ==
    [order_id |-> id, side |-> side, quantity |-> params.quote_size,
     sent_at |-> sent_at, call |-> st_calls + 1]

\* update_quotes, line 61-124, past the two early returns; the orders are
\* handed over d_send ticks and last_quote_time_ is stored d_store ticks
\* after should_requote read the counter
update_quotes(d_send, d_store) ==
    LET position == st_position
        bid_id == st_next_order_id
        ask_id == NextOrderId(st_next_order_id)
    IN  /\ st_next_order_id' = NextOrderId(ask_id)
        /\ tcp_orders' = tcp_orders
              \o (IF QuotesBid(position)
                    THEN <<QuoteOrder(bid_id, "BUY", st_now + d_send)>>
                    ELSE <<>>)
              \o (IF QuotesAsk(position)
                    THEN <<QuoteOrder(ask_id, "SELL", st_now + d_send)>>
                    ELSE <<>>)
        /\ st_last_quote_time' = st_now + d_store
        /\ st_now' = st_now + d_store

\* on_order_book_update, line 19-27, with should_requote and update_quotes
on_order_book_update(snap) ==
    /\ st_snapshot' = snap
    /\ st_calls' = st_calls + 1
    /\ st_called_at' = st_now
    /\ IF /\ should_requote(snap, st_now)
          /\ ~(MidPriceTimes2(snap) <= 0)
          /\ ~(Abs(st_position) >= params.max_position)
         THEN \E d_store \in 0..MaxCallTicks :
                 \E d_send \in 0..d_store : update_quotes(d_send, d_store)
         ELSE UNCHANGED <<st_next_order_id, tcp_orders, st_last_quote_time,
                          st_now>>
    /\ UNCHANGED st_position

\* the market-data thread calls the strategy, main.cpp line 87-89
StratCall(max_calls) ==
    /\ st_calls < max_calls
    /\ \E snap \in QuoteSnapshots : on_order_book_update(snap)
    /\ UNCHANGED notStrat

\* the counter advances between calls
TscAdvance(max_ticks) ==
    /\ st_now < TscStart + max_ticks
    /\ st_now' = st_now + 1
    /\ UNCHANGED <<notStrat, stratState, st_snapshot, st_calls, st_called_at,
                   tcp_orders>>

OnOrderBookUpdate == StratCall(MaxQuoteCalls)
TscTick == TscAdvance(MaxTscTicks)

StratNext ==
    \/ OnOrderBookUpdate
    \/ TscTick

\* the same call made on an arbitrary strategy state
QuoteAtAnyState == StratCall(MaxDecisionCalls)
TscTickAnyState == TscAdvance(MaxDecisionTicks)

QuoteNext ==
    \/ QuoteAtAnyState
    \/ TscTickAnyState

\* ---------------------------------------------------- MarketDataHandler

\* LockFreeHashMap<const char*, OrderBook*, 256> and
\* MemoryPool<OrderBook, 256>, market_data_handler.h line 38 and 41
HD_SIZE == 2 ^ HandlerBits
HdSlots == 0..(HD_SIZE - 1)

\* hashmap.h line 125
MAX_KEY_LEN == 16

\* the symbols: single letters, a symbol of MAX_KEY_LEN - 1 letters and one
\* of MAX_KEY_LEN letters; a string is the sequence of its characters
Chars == 65..(64 + NumChars)
LongSymbol(n) == [i \in 1..n |-> 65]
HdSymbols ==
    {<<c>> : c \in Chars}
        \cup {LongSymbol(MAX_KEY_LEN - 1), LongSymbol(MAX_KEY_LEN)}

\* the symbols that fit the 16 bytes of a record with their terminator
RecordSymbols == {sym \in HdSymbols : Len(sym) < MAX_KEY_LEN}

RECURSIVE Xor(_, _)
\* a ^ b on non-negative integers
Xor(a, b) ==
    IF a = 0 THEN b
    ELSE IF b = 0 THEN a
    ELSE 2 * Xor(a \div 2, b \div 2) + ((a + b) % 2)

\* hash_string, hashmap.h line 202-203: FNV_OFFSET 14695981039346656037 and
\* FNV_PRIME 1099511628211; the model keeps the low 16 bits of the 64-bit
\* hash, which the low 16 bits of these two determine
HashModulus == 2 ^ 16
FNV_OFFSET == 8997
FNV_PRIME == 435

RECURSIVE FnvFrom(_, _, _)
\* hash_string, line 206-209, from character i of str on
FnvFrom(h, str, i) ==
    IF i > Len(str) THEN h
    ELSE FnvFrom((Xor(h, str[i]) * FNV_PRIME) % HashModulus, str, i + 1)

\* hash_string, hashmap.h line 201-212, of every symbol
SymbolHashes == [sym \in HdSymbols |-> FnvFrom(FNV_OFFSET, sym, 1)]
hash_string(str) == SymbolHashes[str]

\* insert line 143-146, find line 174-177
StringTag(str) ==
    IF hash_string(str) = EMPTY \/ hash_string(str) = TOMBSTONE
      THEN 2 ELSE hash_string(str)

\* std::strncpy(key, str, n) into a zeroed key: the first n characters
strncpyBug(str, n) == SubSeq(str, 1, IF Len(str) < n THEN Len(str) ELSE n - 1)
strncpy(str, n) == SubSeq(str, 1, IF Len(str) < n THEN Len(str) ELSE n)

\* std::strcmp(a, b) == 0
strcmp_equal(a, b) == a = b

\* idx after i probes, line 148 and 167 (179 and 192)
HdProbe(h, i) == (h + i) % HD_SIZE

\* Entry{}, hashmap.h line 127-131
EmptyEntry == [hash |-> EMPTY, key |-> <<>>, value |-> NullPtr]

RECURSIVE FindFrom(_, _, _, _)
\* find, hashmap.h line 181-195, from probe i on: the slot found, or NullPtr
FindFrom(entries, key, h, i) ==
    IF i = HD_SIZE THEN NullPtr
    ELSE LET idx == HdProbe(h, i)
         IN  IF entries[idx].hash = EMPTY THEN NullPtr
             ELSE IF entries[idx].hash = h
                     /\ strcmp_equal(entries[idx].key, key)
               THEN idx
               ELSE FindFrom(entries, key, h, i + 1)

\* find(key), hashmap.h line 173-196
string_find(entries, key) == FindFrom(entries, key, StringTag(key), 0)

RECURSIVE InsertFrom(_, _, _, _, _)
\* insert, hashmap.h line 150-170, from probe i on: the entries it leaves
InsertFrom(entries, key, value, h, i) ==
    IF i = HD_SIZE THEN entries
    ELSE LET idx == HdProbe(h, i)
         IN  IF entries[idx].hash = EMPTY
               THEN [entries EXCEPT ![idx] =
                       [hash |-> h, key |-> strncpy(key, MAX_KEY_LEN - 1),
                        value |-> value]]
             ELSE IF entries[idx].hash = h
                     /\ strcmp_equal(entries[idx].key, key)
               THEN [entries EXCEPT ![idx].value = value]
               ELSE InsertFrom(entries, key, value, h, i + 1)

\* insert(key, value), hashmap.h line 142-171
string_insert(entries, key, value) ==
    InsertFrom(entries, key, value, StringTag(key), 0)

\* get_order_book, market_data_handler.cpp line 15-19
get_order_book(entries, symbol) ==
    IF string_find(entries, symbol) = NullPtr THEN NullPtr
    ELSE entries[string_find(entries, symbol)].value

\* OrderBook::OrderBook, order_book.cpp line 7-16
NewBook ==
    [levels |-> [s \in Sides |-> [l \in Levels |-> EmptyLevel]],
     depth |-> [s \in Sides |-> 0],
     sequence |-> [s \in Sides |-> 0]]

\* update_level, order_book.cpp line 28-44, run by one thread
update_level(book, side, level, price, quantity) ==
    [levels |-> [book.levels EXCEPT ![side][level].price = price,
                                    ![side][level].quantity = quantity],
     depth |-> IF BookNeedsDepth(level, book.depth[side])
                 THEN [book.depth EXCEPT ![side] = BookNewDepth(level)]
                 ELSE book.depth,
     sequence |-> [book.sequence EXCEPT ![side] = BookNextSequence(@)]]

\* update_bid / update_ask, order_book.cpp line 18-26
update_side(book, side, level, price, quantity) ==
    IF BookInRange(level)
      THEN update_level(book, side, level, price, quantity)
      ELSE book

\* get_snapshot, order_book.cpp line 46-67, with no update in progress
get_snapshot(book) ==
    [bids |-> book.levels["bid"], asks |-> book.levels["ask"],
     bid_depth |-> book.depth["bid"], ask_depth |-> book.depth["ask"],
     bid_sequence |-> book.sequence["bid"],
     ask_sequence |-> book.sequence["ask"]]

\* MarketDataHandler(), market_data_handler.cpp line 7; the map's and the
\* pool's constructors; callback_ is empty
HdInit ==
    /\ hd_entries = [i \in HdSlots |-> EmptyEntry]
    /\ hd_free_count = HD_SIZE
    /\ hd_allocated = {}
    /\ hd_books = [i \in HdSlots |-> NewBook]
    /\ hd_callback = FALSE
    /\ hd_call = [name |-> "none"]
    /\ hd_counts = [adds |-> 0, messages |-> 0]
    /\ hd_seen = [count |-> 0, book |-> NullPtr, snapshot |-> EmptySnapshot]
    /\ hd_long = FALSE
    /\ hd_registered = {}

\* register_callback, market_data_handler.cpp line 11-13
RegisterCallback ==
    /\ ~hd_callback
    /\ hd_callback' = TRUE
    /\ hd_call' = [name |-> "register_callback"]
    /\ UNCHANGED <<notHd, hd_entries, hd_free_count, hd_allocated, hd_books,
                   hd_counts, hdHistory>>

\* add_symbol(symbol), market_data_handler.cpp line 25-33, with
\* MemoryPool::allocate (memory_pool.h line 35-56) run by one thread on a
\* free list that still holds free_list_[i] = i
add_symbol(symbol) ==
    IF get_order_book(hd_entries, symbol) = NullPtr
         /\ PoolHasFree(hd_free_count)
      THEN LET book == PoolTop(hd_free_count)
           IN  /\ hd_free_count' = PoolCountAfterAlloc(hd_free_count)
               /\ hd_allocated' = hd_allocated \cup {book}
               /\ hd_books' = [hd_books EXCEPT ![book] = NewBook]
               /\ hd_entries' = string_insert(hd_entries, symbol, book)
               /\ hd_registered' = hd_registered \cup {symbol}
      ELSE UNCHANGED <<hd_entries, hd_free_count, hd_allocated, hd_books,
                       hd_registered>>

\* the control plane registers a symbol
AddSymbol ==
    /\ hd_counts.adds < MaxAdds
    /\ \E symbol \in HdSymbols :
          /\ add_symbol(symbol)
          /\ hd_call' = [name |-> "add_symbol", symbol |-> symbol]
          /\ hd_long' = (hd_long \/ Len(symbol) > MAX_KEY_LEN - 1)
    /\ hd_counts' = [hd_counts EXCEPT !.adds = @ + 1]
    /\ UNCHANGED <<notHd, hd_callback, hd_seen>>

\* process_message, line 55-59: the side the record's side byte selects
RecordSideBug(side) == IF side = 1 THEN "bid" ELSE "ask"
RecordSide(side) == IF side = 0 THEN "bid" ELSE "ask"

\* process_message, line 39: the record is complete
RecordCompleteBug(msg) == TRUE
RecordComplete(msg) == msg.complete

\* process_message(data, len), market_data_handler.cpp line 35-65; data is
\* the sequence of the records in the buffer, the last one possibly cut
\* short, and msg (line 45) is the record at the start of the buffer; the
\* subscriber takes a snapshot of the book it is given
process_message(data) ==
    LET msg == data[1]
        book == get_order_book(hd_entries, msg.symbol)
    IN  IF ~RecordComplete(msg) \/ book = NullPtr
          THEN UNCHANGED <<hd_books, hd_seen>>
          ELSE LET updated ==
                     update_side(hd_books[book], RecordSide(msg.side),
                                 msg.level, msg.price, msg.quantity)
               IN  /\ hd_books' = [hd_books EXCEPT ![book] = updated]
                   /\ hd_seen' =
                         IF hd_callback
                           THEN [count |-> hd_seen.count + 1, book |-> book,
                                 snapshot |-> get_snapshot(updated)]
                           ELSE hd_seen

\* the records: complete ones of any symbol, side byte, level up to
\* MAX_DEPTH and price, and datagrams cut short
Records ==
    [complete : {TRUE}, symbol : RecordSymbols, side : 0..2,
     level : 0..MAX_DEPTH, price : Prices, quantity : {MaxQuantity}]
      \cup [complete : {FALSE}, symbol : RecordSymbols, side : {0},
             level : {0}, price : {MaxPrice}, quantity : {MaxQuantity}]

\* the call handler_.process_message(buffer, bytes_received),
\* udp_receiver.cpp line 153
HandleDatagram(data) ==
    /\ process_message(data)
    /\ hd_call' = [name |-> "process_message", msg |-> data[1],
                   data |-> data]
    /\ hd_counts' = [hd_counts EXCEPT !.messages = @ + 1]
    /\ UNCHANGED <<hd_entries, hd_free_count, hd_allocated, hd_callback,
                   hd_long, hd_registered>>

\* the market-data thread processes a datagram
ProcessData(datagrams) ==
    /\ hd_counts.messages < MaxMessages
    /\ \E data \in datagrams : HandleDatagram(data)
    /\ UNCHANGED notHd

\* a datagram of one record
ProcessMessage == ProcessData({<<msg>> : msg \in Records})

HdNext ==
    \/ RegisterCallback
    \/ AddSymbol
    \/ ProcessMessage

\* the records of the datagrams that hold several: those of the one-letter
\* symbols for the best level of either side, one cut short among them
DatagramRecords ==
    {msg \in Records :
        /\ Len(msg.symbol) = 1
        /\ msg.side \in {0, 1}
        /\ msg.level = 0}

\* datagrams of up to MaxRecords back-to-back records; only the last
\* record of a datagram can be cut short
Datagrams ==
    {data \in UNION {[1..n -> DatagramRecords] : n \in 1..MaxRecords} :
        \A i \in 1..(Len(data) - 1) : data[i].complete}

\* a datagram of one or more records
ProcessDatagram == ProcessData(Datagrams)

DatagramNext ==
    \/ RegisterCallback
    \/ AddSymbol
    \/ ProcessDatagram

\* ---------------------------------------------------------- UDPReceiver

\* the datagrams that reach the socket: an empty one, and those of one
\* record
RxDatagrams == {<<>>} \cup {<<msg>> : msg \in DatagramRecords}

\* members of UDPReceiver, udp_receiver.h line 35-37: socket_fd_ = -1,
\* running_{false}, no thread
RxInit ==
    /\ rx_running = FALSE
    /\ rx_open = FALSE
    /\ rx_pc = "none"
    /\ rx_stop = "idle"
    /\ rx_queue = <<>>
    /\ rx_counts = [starts |-> 0, arrived |-> 0]

\* start(), udp_receiver.cpp line 28-40, called by the control plane while
\* it is not inside stop(): return if running_; return if setup_socket
\* fails (the socket stays closed); else set running_ and spawn the thread
\* at the loop test
RxStart ==
    /\ rx_stop # "join"
    /\ rx_counts.starts < MaxStarts
    /\ rx_counts' = [rx_counts EXCEPT !.starts = @ + 1]
    /\ IF rx_running
         THEN UNCHANGED <<rx_running, rx_open, rx_pc>>
         ELSE \E ok \in BOOLEAN :
                IF ok
                  THEN /\ rx_open' = TRUE
                       /\ rx_running' = TRUE
                       /\ rx_pc' = "test"
                  ELSE UNCHANGED <<rx_running, rx_open, rx_pc>>
    /\ UNCHANGED <<notRx, rx_stop, rx_queue>>

\* a datagram of the multicast group reaches the bound socket
DatagramArrives ==
    /\ rx_open
    /\ rx_counts.arrived < MaxDatagrams
    /\ \E data \in RxDatagrams : rx_queue' = Append(rx_queue, data)
    /\ rx_counts' = [rx_counts EXCEPT !.arrived = @ + 1]
    /\ UNCHANGED <<notRx, rx_running, rx_open, rx_pc, rx_stop>>

\* receive_loop, line 146: while (running_.load(acquire)); the thread
\* returns when the flag is clear
RxTest ==
    /\ rx_pc = "test"
    /\ rx_pc' = IF rx_running THEN "recv" ELSE "exited"
    /\ UNCHANGED <<notRx, rx_running, rx_open, rx_stop, rx_queue,
                   rx_counts>>

\* receive_loop, line 148-153: the blocking recv returns the next datagram
\* of the socket; one of more than 0 bytes is handed to process_message
RxRecv ==
    /\ rx_pc = "recv"
    /\ rx_queue # <<>>
    /\ rx_queue' = Tail(rx_queue)
    /\ rx_pc' = "test"
    /\ IF Head(rx_queue) # <<>>
         THEN HandleDatagram(Head(rx_queue))
         ELSE UNCHANGED hdVars
    /\ UNCHANGED <<notHdRx, rx_running, rx_open, rx_stop, rx_counts>>

\* receive_loop, line 148 and 154-160: recv fails; with EAGAIN or
\* EWOULDBLOCK the loop goes on, with any other error it is left
RxRecvError ==
    /\ rx_pc = "recv"
    /\ \E again \in BOOLEAN : rx_pc' = IF again THEN "test" ELSE "exited"
    /\ UNCHANGED <<notRx, rx_running, rx_open, rx_stop, rx_queue,
                   rx_counts>>

\* stop(), line 43: running_.store(false, release)
RxStopStore ==
    /\ rx_stop = "idle"
    /\ rx_running' = FALSE
    /\ rx_stop' = "join"
    /\ UNCHANGED <<notRx, rx_open, rx_pc, rx_queue, rx_counts>>

\* stop(), line 45-52: join the thread if there is one, which returns
\* once the thread has left receive_loop, then close the socket
RxStopJoin ==
    /\ rx_stop = "join"
    /\ rx_pc \in {"none", "exited"}
    /\ rx_pc' = "none"
    /\ rx_open' = FALSE
    /\ rx_queue' = <<>>
    /\ rx_stop' = "returned"
    /\ UNCHANGED <<notRx, rx_running, rx_counts>>

\* stop() is called again, by the control plane or by the destructor
RxStopAgain ==
    /\ rx_stop = "returned"
    /\ rx_stop' = "idle"
    /\ UNCHANGED <<notRx, rx_running, rx_open, rx_pc, rx_queue,
                   rx_counts>>

RxNext ==
    \/ RxStart
    \/ DatagramArrives
    \/ RxTest
    \/ RxRecv
    \/ RxRecvError
    \/ RxStopStore
    \/ RxStopJoin
    \/ RxStopAgain

\* the receiver thread and a thread inside stop() keep running; datagrams
\* and errors of recv come when they come
RxFairness ==
    /\ WF_vars(RxTest)
    /\ WF_vars(RxRecv)
    /\ WF_vars(RxStopJoin)

\* ------------------------------------------------- order book: claims

\* the book an update call is expected to leave, given the book before it
BookExpected(b, c) ==
    IF c.level >= MAX_DEPTH
      THEN b
      ELSE [levels |-> [b.levels EXCEPT ![c.side][c.level] =
                          [price |-> c.price, quantity |-> c.quantity,
                           order_count |-> 0]],
            depth |-> [b.depth EXCEPT ![c.side] =
                          IF c.level + 1 > @ THEN c.level + 1 ELSE @],
            sequence |-> [b.sequence EXCEPT ![c.side] = @ + 1]]

RECURSIVE BookAfter(_)
\* the book expected after the calls of log, made one after the other
BookAfter(log) ==
    IF log = <<>>
      THEN [levels |-> [s \in Sides |-> [l \in Levels |-> EmptyLevel]],
            depth |-> [s \in Sides |-> 0],
            sequence |-> [s \in Sides |-> 0]]
      ELSE BookExpected(BookAfter(SubSeq(log, 1, Len(log) - 1)),
                        log[Len(log)])

\* what a snapshot shows of one side
SnapSide(snap, side) ==
    [levels |-> snap[SnapLevels(side)],
     depth |-> IF side = "bid" THEN snap.bid_depth ELSE snap.ask_depth,
     sequence |-> IF side = "bid" THEN snap.bid_sequence
                                  ELSE snap.ask_sequence]

\* what a book holds for one side
BookSide(b, side) ==
    [levels |-> b.levels[side], depth |-> b.depth[side],
     sequence |-> b.sequence[side]]

\* reader 1 holds a snapshot that it took after the last update call
\* returned, with no update call since
SnapQuiet == r_pc[1] = "done" /\ r_quiet[1] /\ book_log # <<>>

LastCall == book_log[Len(book_log)]
BookBeforeLastCall == BookAfter(SubSeq(book_log, 1, Len(book_log) - 1))
OtherSide(side) == IF side = "bid" THEN "ask" ELSE "bid"

\* C13: a snapshot taken after a completed update_bid / update_ask
\* (L, P, Q) with L < MAX_DEPTH, no update in progress, shows for that side
\* a sequence at least one greater than before, a depth of at least L + 1
\* and level L = (P, Q, 0); the other levels of that side and the whole
\* other side are as before the update.
C13_SnapshotAfterUpdate ==
    (SnapQuiet /\ LastCall.level < MAX_DEPTH) =>
        LET c == LastCall
            before == BookBeforeLastCall
            mine == SnapSide(r_snap[1], c.side)
        IN  /\ mine.sequence >= before.sequence[c.side] + 1
            /\ mine.depth >= c.level + 1
            /\ mine.levels[c.level] =
                  [price |-> c.price, quantity |-> c.quantity,
                   order_count |-> 0]
            /\ \A l \in Levels \ {c.level} :
                  mine.levels[l] = before.levels[c.side][l]
            /\ SnapSide(r_snap[1], OtherSide(c.side)) =
                  BookSide(before, OtherSide(c.side))

\* C13 witness: the snapshot follows an update of level 0 of a side whose
\* level 1 was written before and whose other side is not empty.
C13_Witness ==
    /\ SnapQuiet
    /\ LastCall.level = 0
    /\ r_snap[1][SnapLevels(LastCall.side)][1].price > 0
    /\ SnapSide(r_snap[1], OtherSide(LastCall.side)).depth > 0

\* the calls of the log that update a side
SideCalls(side) ==
    {k \in 1..Len(book_log) :
        book_log[k].side = side /\ book_log[k].level < MAX_DEPTH}

\* the number of updates of a side that have completed
CompletedUpdates(side) ==
    Cardinality(SideCalls(side)) -
        (IF w_pc # 0 /\ w_side = side THEN 1 ELSE 0)

C14_Inv ==
    /\ \A side \in Sides : book_sequence[side] = CompletedUpdates(side)
    /\ \A r \in Readers :
          r_pc[r] = "done" =>
              /\ r_snap[r].ask_sequence >= r_ask_at_call[r]
              /\ r_snap[r].bid_sequence + r_snap[r].ask_sequence
                    <= Len(book_log)

C14_Step ==
    \A side \in Sides :
        /\ book_sequence'[side] >= book_sequence[side]
        /\ book_sequence'[side] # book_sequence[side] =>
              /\ book_sequence'[side] = book_sequence[side] + 1
              /\ w_pc # 0 /\ w_pc' = 0 /\ w_side = side
              /\ book_sequence'[OtherSide(side)]
                    = book_sequence[OtherSide(side)]
        /\ (w_pc # 0 /\ w_pc' = 0 /\ w_side = side) =>
              book_sequence'[side] = book_sequence[side] + 1

\* C14: the sequence of a side is the number of completed in-range updates
\* of that side; it never decreases, grows by exactly one when such an
\* update completes and at no other step, and an update of one side leaves
\* the other side's sequence alone; the sequence a snapshot reports for a
\* side is at least the number of updates completed when it was called.
C14_SequenceCountsUpdates == []C14_Inv /\ [][C14_Step]_vars

\* C14 witness: a snapshot called after one ask update reports the second
\* ask update too, which completed while it was being taken.
C14_Witness ==
    /\ r_pc[1] = "done"
    /\ r_ask_at_call[1] = 1
    /\ r_snap[1].ask_sequence = 2

\* the step is a call of update_bid / update_ask with level >= MAX_DEPTH
OutOfRangeCall ==
    /\ Len(book_log') = Len(book_log) + 1
    /\ book_log'[Len(book_log')].level >= MAX_DEPTH

\* C15: update_bid / update_ask with level >= MAX_DEPTH return at once and
\* leave every level, both depths and both sequences unchanged, so that a
\* snapshot taken afterwards shows what one taken before would show.
C15_OutOfRangeNoOp ==
    /\ [][OutOfRangeCall => (w_pc' = 0 /\ UNCHANGED bookShared)]_vars
    /\ []((SnapQuiet /\ LastCall.level >= MAX_DEPTH) =>
            \A side \in Sides :
                SnapSide(r_snap[1], side) = BookSide(BookBeforeLastCall, side))

\* C15 witness: a snapshot of a book that is not empty, taken after a call
\* with level = MAX_DEPTH.
C15_Witness ==
    /\ SnapQuiet
    /\ LastCall.level = MAX_DEPTH
    /\ r_snap[1].bid_depth > 0
    /\ r_snap[1].ask_depth > 0

\* the levels of a side written by the update calls made so far
LevelsWritten(side) == {book_log[k].level : k \in SideCalls(side)}

C16_Inv ==
    \A side \in Sides :
        /\ book_depth[side] <= MAX_DEPTH
        /\ w_pc = 0 =>
              book_depth[side] =
                  IF LevelsWritten(side) = {} THEN 0
                  ELSE 1 + CHOOSE l \in LevelsWritten(side) :
                              \A m \in LevelsWritten(side) : m <= l

FreshValues(side, l, s, f) ==
    LET calls == {k \in SideCalls(side) : book_log[k].level = l}
        first == {k \in calls :
                    Cardinality({j \in SideCalls(side) : j <= k}) <= s}
        later == {k \in calls : \A j \in first : j <= k}
    IN  {book_log[k][f] : k \in later}
            \cup (IF first = {} THEN {EmptyLevel[f]} ELSE {})

\* the least depth a snapshot that reports sequence s may hold
FreshDepth(side, s) ==
    LET first == {k \in SideCalls(side) :
                    Cardinality({j \in SideCalls(side) : j <= k}) <= s}
    IN  IF first = {} THEN 0
        ELSE 1 + CHOOSE l \in {book_log[k].level : k \in first} :
                    \A k \in first : book_log[k].level <= l

\* C17: with one writer and concurrent readers, a snapshot that reports
\* sequence s for a side holds for that side a depth and level prices and
\* quantities at least as new as the book after the first s updates of the
\* side.
C17_SnapshotNotStalerThanSequence ==
    \A r \in Readers :
        r_pc[r] = "done" =>
            \A side \in Sides :
                LET mine == SnapSide(r_snap[r], side)
                IN  /\ mine.depth >= FreshDepth(side, mine.sequence)
                    /\ \A l \in Levels :
                          /\ mine.levels[l].price \in
                                FreshValues(side, l, mine.sequence, "price")
                          /\ mine.levels[l].quantity \in
                                FreshValues(side, l, mine.sequence, "quantity")

\* C17 witness: a snapshot that reports one update of a side and holds
\* the price of that side's second update, which wrote another price to the
\* same level while the snapshot was taken.
C17_Witness ==
    \E r \in Readers, side \in Sides :
        /\ r_pc[r] = "done"
        /\ SnapSide(r_snap[r], side).sequence = 1
        /\ Len(book_log) = 2
        /\ book_log[1].side = side /\ book_log[2].side = side
        /\ book_log[1].level = 0 /\ book_log[2].level = 0
        /\ book_log[1].price # book_log[2].price
        /\ r_snap[r][SnapLevels(side)][0].price = book_log[2].price

\* C18 as claimed: while the writer alternates update_bid(0, b_i, q) and
\* update_ask(0, a_i, q) with b_i <= a_i, every snapshot a reader takes has
\* best_ask() >= best_bid().
C18_SnapshotNeverCrossed ==
    \A r \in Readers :
        r_pc[r] = "done" => best_ask(r_snap[r]) >= best_bid(r_snap[r])

\* every bid of the alternating writer is at most the ask of the round
\* before it and every later ask
AltOrdered ==
    \A i, j \in 1..Len(book_log) :
        (i % 2 = 1 /\ j % 2 = 0 /\ j + 1 >= i) =>
            book_log[i].price <= book_log[j].price

\* C18 amended: while the writer alternates update_bid(0, b_i, q) and
\* update_ask(0, a_i, q) and every bid is at most the ask of the round before
\* and every later ask (b_i <= a_j for j >= i - 1), every snapshot a reader
\* takes has best_ask() >= best_bid().
C18_SnapshotNeverCrossedOrdered ==
    \A r \in Readers :
        (r_pc[r] = "done" /\ AltOrdered) =>
            best_ask(r_snap[r]) >= best_bid(r_snap[r])

\* C18 witness: two rounds with a higher bid in the second; the snapshot
\* reports one bid update and holds the second bid and the first ask.
C18_Witness ==
    \E r \in Readers :
        /\ r_pc[r] = "done"
        /\ AltOrdered
        /\ Len(book_log) = 4
        /\ book_log[3].price > book_log[1].price
        /\ r_snap[r].bid_sequence = 1
        /\ r_snap[r].ask_sequence = 1
        /\ best_bid(r_snap[r]) = book_log[3].price
        /\ best_ask(r_snap[r]) = book_log[2].price

\* ---------------------------------------------- order manager: claims

\* the step is a submit_order call
OmCalled == om_calls' = om_calls + 1

\* C19: submit_order with quantity > max_order_size or quantity <= 0 is
\* rejected by the size check before any other check runs: it fails,
\* nothing is handed to the transport, the position is unchanged, and the
\* rate limiter, which the third check updates, is untouched.
C19_OversizeRejectedFirst ==
    [][(OmCalled /\ (om_order'.quantity > limits.max_order_size
                      \/ om_order'.quantity <= 0))
        => (om_ret' = "ORDER_SIZE" /\ UNCHANGED <<omState, om_sent>>)]_vars

\* C19 witness: an order above max_order_size has just been rejected in a
\* second whose counter would have been reset, at a position other than 0.
C19_Witness ==
    /\ om_ret = "ORDER_SIZE"
    /\ om_order.quantity > limits.max_order_size
    /\ om_position # 0
    /\ om_orders_this_second > 0
    /\ om_now - om_last_second_timestamp > ONE_SECOND_NS

\* the checks that reject an order
Rejections == {"ORDER_SIZE", "POSITION_LIMIT", "RATE_LIMIT", "NOTIONAL_LIMIT"}

\* C20: when submit_order rejects an order at any of the four checks,
\* position and cumulative notional are unchanged and the order is not
\* counted in the orders-in-current-second counter: the counter does not
\* grow (it may be reset because a new second began).
C20_RejectionLeavesState ==
    [][(OmCalled /\ om_ret' \in Rejections)
        => /\ UNCHANGED <<om_position, om_notional>>
           /\ om_orders_this_second' <= om_orders_this_second]_vars

\* C21: starting from position 0 with fixed limits, after any sequence of
\* submit_order calls |position| <= max_position, and position is the sum
\* of +quantity of every BUY and -quantity of every SELL that send_order
\* sent; rejected orders and failed sends contribute nothing.
C21_PositionIsNetSent ==
    /\ Abs(om_position) <= limits.max_position
    /\ om_position = om_sent.net

\* C21 witness: a send has just failed after orders were sent, one of them
\* a SELL, and the position stands at the limit.
C21_Witness ==
    /\ om_ret = "SEND_FAILED"
    /\ om_sent.calls = 3
    /\ om_position = 0 - limits.max_position

\* C22: the number of orders that pass the rate check within one
\* wall-clock second never exceeds max_orders_per_second, and a call that
\* reaches the rate check resets the counter if and only if the wall-clock
\* second differs from the second of the last reset.
C22_Inv == om_passed.count <= limits.max_orders_per_second

RateChecked == OmCalled /\ om_ret' \notin {"ORDER_SIZE", "POSITION_LIMIT"}

C22_Step ==
    RateChecked =>
        ((om_last_second_timestamp' # om_last_second_timestamp)
            <=> (SecondOf(om_now) # SecondOf(om_last_second_timestamp)))

C22_RatePerWallClockSecond == []C22_Inv /\ [][C22_Step]_vars

\* C23: the sum of price x quantity over all orders sent so far never
\* exceeds max_notional.
C23_CumulativeNotional == om_sent.notional <= limits.max_notional

\* ------------------------------------------------- strategy: claims

\* the step is an on_order_book_update call
StratCalled == st_calls' = st_calls + 1

\* the orders the step hands to the transport
Emitted == SubSeq(tcp_orders', Len(tcp_orders) + 1, Len(tcp_orders'))

\* side and quantity of each order of a sequence
SideAndQuantity(orders) ==
    [i \in 1..Len(orders) |-> <<orders[i].side, orders[i].quantity>>]

\* the minimum quote interval in ticks of the counter
IntervalTicks == TscPerNs * MIN_QUOTE_INTERVAL_NS

\* C24: every order the strategy emits reaches the transport only through
\* the risk-gated submitter: each hand-over to send_order happens inside a
\* submit_order call for that order which passed the four risk checks.
C24_SentOnlyThroughGate ==
    [][(tcp_orders' # tcp_orders)
        => /\ OmCalled
           /\ om_ret' \in {"ok", "SEND_FAILED"}
           /\ om_order'.quantity = tcp_orders'[Len(tcp_orders')].quantity]_vars

\* C25: on_order_book_update emits no order when spread_bps > 10, when less
\* than the minimum quote interval has passed since the last quote, when
\* mid <= 0 or when |position| >= max_position; otherwise it emits a buy
\* quote iff position < 0.8 x max_position and a sell quote iff
\* position > -0.8 x max_position, the buy first, each of quote_size.
C25_QuoteDecision ==
    [][StratCalled =>
        LET snap == st_snapshot'
            skip ==
                \/ spread_bps_above(snap, 10)
                \/ st_now - st_last_quote_time < IntervalTicks
                \/ best_bid(snap) + best_ask(snap) <= 0
                \/ Abs(st_position) >= params.max_position
            buy == 10 * st_position < 8 * params.max_position
            sell == 10 * st_position > 0 - 8 * params.max_position
        IN  SideAndQuantity(Emitted) =
              IF skip THEN <<>>
              ELSE (IF buy THEN <<<<"BUY", params.quote_size>>>> ELSE <<>>)
                   \o (IF sell THEN <<<<"SELL", params.quote_size>>>>
                        ELSE <<>>)]_vars

\* C25 witness: at a position of 0.8 x max_position a call within the
\* spread and the interval has emitted the sell quote alone.
C25_Witness ==
    /\ st_calls = 1
    /\ 10 * st_position = 8 * params.max_position
    /\ SideAndQuantity(tcp_orders) = <<<<"SELL", params.quote_size>>>>
    /\ spread(st_snapshot) = 1

\* C29: two quote rounds are never emitted less than the minimum quote
\* interval apart: a round sets the last-quote timestamp at its end, after
\* its orders, a call that skips leaves it alone, and a call arriving
\* within the interval after a round emits nothing.
C29_Inv ==
    \A i, j \in 1..Len(tcp_orders) :
        tcp_orders[i].call < tcp_orders[j].call
            => tcp_orders[j].sent_at - tcp_orders[i].sent_at >= IntervalTicks

C29_Step ==
    StratCalled =>
        /\ (st_now - st_last_quote_time < IntervalTicks) => Emitted = <<>>
        /\ (Emitted = <<>>) => UNCHANGED st_last_quote_time
        /\ (Emitted # <<>>) =>
              /\ st_last_quote_time' = st_now'
              /\ \A i \in 1..Len(Emitted) :
                    Emitted[i].sent_at <= st_last_quote_time'

C29_QuoteRoundsApart == []C29_Inv /\ [][C29_Step]_vars

\* C29 witness: a round, and then a call with a quotable snapshot that came
\* within the interval after the round's end and emitted nothing.
C29_Witness ==
    /\ st_calls = 2
    /\ Len(tcp_orders) = 2
    /\ tcp_orders[2].sent_at < st_last_quote_time
    /\ st_called_at > st_last_quote_time
    /\ st_called_at - st_last_quote_time < IntervalTicks
    /\ ~spread_bps_above(st_snapshot, 10)
    /\ MidPriceTimes2(st_snapshot) > 0

\* C30: the order ids of the orders handed to the transport are pairwise
\* distinct and strictly increasing in emission order, starting from 1,
\* and within one round the buy quote's id is below the sell quote's id.
C30_OrderIdsIncrease ==
    /\ \A i, j \in 1..Len(tcp_orders) :
          i < j => tcp_orders[i].order_id < tcp_orders[j].order_id
    /\ tcp_orders # <<>> => tcp_orders[1].order_id = 1
    /\ \A i, j \in 1..Len(tcp_orders) :
          (/\ tcp_orders[i].call = tcp_orders[j].call
           /\ tcp_orders[i].side = "BUY"
           /\ tcp_orders[j].side = "SELL")
              => tcp_orders[i].order_id < tcp_orders[j].order_id

\* C30 witness: two rounds have emitted four orders.
C30_Witness ==
    /\ Len(tcp_orders) = 4
    /\ tcp_orders[4].order_id = 4
    /\ tcp_orders[3].call = 2
    /\ tcp_orders[3].side = "BUY"

\* ------------------------------------------------ handler: claims

\* the slots of the symbol map that hold a tag
Tagged(entries) == {i \in HdSlots : entries[i].hash # EMPTY}

\* the slots of the symbol map whose key is the symbol
SlotsOf(entries, symbol) == {i \in Tagged(entries) : entries[i].key = symbol}

\* the step is an add_symbol call / a process_message call
HdAdded == hd_counts'.adds = hd_counts.adds + 1
HdProcessed == hd_counts'.messages = hd_counts.messages + 1

\* C26: after add_symbol calls with symbols of at most 15 characters every
\* registered symbol maps to exactly one order book, and the number of
\* allocated pool slots equals the number of tagged map slots.
C26_Inv ==
    ~hd_long =>
        /\ \A sym \in HdSymbols :
              Cardinality(SlotsOf(hd_entries, sym))
                  = IF sym \in hd_registered THEN 1 ELSE 0
        /\ \A sym \in hd_registered :
              \A i \in SlotsOf(hd_entries, sym) :
                  /\ get_order_book(hd_entries, sym) = hd_entries[i].value
                  /\ hd_entries[i].value \in hd_allocated
        /\ \A i, j \in Tagged(hd_entries) :
              hd_entries[i].value = hd_entries[j].value => i = j
        /\ Cardinality(hd_allocated) = Cardinality(Tagged(hd_entries))
        /\ Cardinality(hd_allocated) = HD_SIZE - hd_free_count

\* C26, the calls: add_symbol for a registered symbol changes neither the
\* map nor the pool; with the pool exhausted it leaves the map unchanged;
\* otherwise it registers the symbol; and the book get_order_book returns
\* for a symbol is the same for the rest of the handler's lifetime.
C26_Step ==
    ~hd_long' =>
        /\ \A sym \in hd_registered :
              /\ get_order_book(hd_entries, sym) # NullPtr
              /\ get_order_book(hd_entries', sym)
                    = get_order_book(hd_entries, sym)
        /\ HdAdded =>
              LET sym == hd_call'.symbol
              IN  /\ sym \in hd_registered
                        => UNCHANGED <<hd_entries, hd_free_count,
                                       hd_allocated, hd_books>>
                  /\ hd_free_count = 0 => UNCHANGED hd_entries
                  /\ (sym \notin hd_registered /\ hd_free_count > 0)
                        => /\ sym \in hd_registered'
                           /\ get_order_book(hd_entries', sym)
                                 \notin hd_allocated

C26_OneBookPerSymbol == []C26_Inv /\ [][C26_Step]_vars

\* C26 witness: two symbols that share a home slot are registered, one of
\* them of MAX_KEY_LEN - 1 characters, and a third add_symbol found the
\* pool exhausted.
C26_Witness ==
    /\ ~hd_long
    /\ hd_counts.adds = 3
    /\ hd_free_count = 0
    /\ hd_call.name = "add_symbol"
    /\ hd_call.symbol \notin hd_registered
    /\ hd_registered = {<<65>>, LongSymbol(MAX_KEY_LEN - 1)}

\* C27: process_message with len smaller than one record, or with a record
\* whose symbol is not registered, changes no book, registers nothing and
\* does not invoke the subscriber.
C27_DroppedRecord ==
    [][(HdProcessed
          /\ (~hd_call'.msg.complete
                \/ hd_call'.msg.symbol \notin hd_registered))
        => UNCHANGED <<hd_books, hd_entries, hd_free_count, hd_allocated,
                       hd_seen>>]_vars

\* C27 witness: a datagram cut short that names a registered symbol has
\* been processed with a subscriber registered.
C27_Witness ==
    /\ hd_call.name = "process_message"
    /\ ~hd_call.msg.complete
    /\ hd_call.msg.symbol \in hd_registered
    /\ hd_callback
    /\ hd_seen.count = 1

\* a complete record of a registered symbol is processed while a
\* subscriber is registered
HdDelivered ==
    /\ HdProcessed
    /\ hd_call'.msg.complete
    /\ hd_call'.msg.symbol \in hd_registered
    /\ hd_callback

\* the update call a record stands for, with side 0 for bids and every
\* other side byte for asks
RecordCall(msg) ==
    [side |-> IF msg.side = 0 THEN "bid" ELSE "ask", level |-> msg.level,
     price |-> msg.price, quantity |-> msg.quantity]

\* the book of the record's symbol is left as want, no other book changes,
\* and the subscriber is invoked once, with that book as it is after the
\* call
DeliveredAs(book, want) ==
    /\ hd_books' = [hd_books EXCEPT ![book] = want]
    /\ hd_seen'.count = hd_seen.count + 1
    /\ hd_seen'.book = book
    /\ \A side \in Sides :
          SnapSide(hd_seen'.snapshot, side) = BookSide(want, side)

\* C28 as stated: for a complete record of a registered symbol (side 0 or
\* 1) process_message applies exactly one level update to that symbol's
\* book on the record's side, changes no other book, and then invokes the
\* subscriber once with that book, whose snapshot holds the record's price
\* and quantity at its level.
C28_OneUpdateThenCallback ==
    [][(HdDelivered /\ hd_call'.msg.side \in {0, 1}) =>
        LET msg == hd_call'.msg
            call == RecordCall(msg)
            book == get_order_book(hd_entries, msg.symbol)
        IN  /\ hd_books'[book].sequence[call.side]
                  = hd_books[book].sequence[call.side] + 1
            /\ DeliveredAs(book, BookExpected(hd_books[book], call))
            /\ SnapSide(hd_seen'.snapshot, call.side).levels[msg.level]
                  = [price |-> msg.price, quantity |-> msg.quantity,
                     order_count |-> 0]]_vars

\* C28 amended: the same for records with level < MAX_DEPTH, with every
\* side byte other than 0 going to the asks.
C28_OneUpdateThenCallbackInRange ==
    [][(HdDelivered /\ hd_call'.msg.level < MAX_DEPTH) =>
        LET msg == hd_call'.msg
            call == RecordCall(msg)
            book == get_order_book(hd_entries, msg.symbol)
        IN  /\ hd_books'[book].sequence[call.side]
                  = hd_books[book].sequence[call.side] + 1
            /\ DeliveredAs(book, BookExpected(hd_books[book], call))
            /\ SnapSide(hd_seen'.snapshot, call.side).levels[msg.level]
                  = [price |-> msg.price, quantity |-> msg.quantity,
                     order_count |-> 0]]_vars

\* C28 witness: the second of two ask records of one symbol, with a second
\* book registered, has been delivered and the subscriber's snapshot holds
\* its price.
C28_Witness ==
    /\ hd_call.name = "process_message"
    /\ hd_call.msg.complete
    /\ hd_call.msg.side = 1
    /\ hd_call.msg.level = 1
    /\ hd_call.msg.symbol \in hd_registered
    /\ Cardinality(hd_allocated) = 2
    /\ hd_seen.count = 2
    /\ hd_seen.snapshot.ask_sequence = 2
    /\ hd_seen.snapshot.ask_depth = 2
    /\ hd_seen.snapshot.asks[1].price = hd_call.msg.price
    /\ hd_seen.snapshot.asks[0].price # hd_call.msg.price

\* the books after the records i.. of a datagram are applied in order, each
\* to the book of its symbol
RECURSIVE ApplyRecords(_, _, _)
ApplyRecords(books, data, i) ==
    IF i > Len(data) THEN books
    ELSE LET book == get_order_book(hd_entries, data[i].symbol)
             after == [books EXCEPT
                          ![book] = BookExpected(@, RecordCall(data[i]))]
         IN  ApplyRecords(after, data, i + 1)

\* C31: when process_message receives a datagram of k >= 1 complete
\* back-to-back records (here: of registered symbols, with levels in range
\* and a subscriber registered), all k records are applied to their books
\* in datagram order and the subscriber is invoked once for each.
C31_AllRecordsApplied ==
    [][(/\ HdProcessed
        /\ hd_callback
        /\ \A i \in 1..Len(hd_call'.data) :
              /\ hd_call'.data[i].complete
              /\ hd_call'.data[i].symbol \in hd_registered
              /\ hd_call'.data[i].level < MAX_DEPTH)
        => /\ hd_books' = ApplyRecords(hd_books, hd_call'.data, 1)
           /\ hd_seen'.count = hd_seen.count + Len(hd_call'.data)]_vars

\* C32: a complete record of a registered symbol whose level is
\* MAX_DEPTH or more is dropped: no book changes and the subscriber is not
\* invoked for it.
C32_OutOfRangeDropped ==
    [][(/\ HdProcessed
        /\ hd_call'.msg.complete
        /\ hd_call'.msg.symbol \in hd_registered
        /\ hd_call'.msg.level >= MAX_DEPTH)
        => UNCHANGED <<hd_books, hd_seen>>]_vars

\* the (price, quantity) pairs some update call wrote to a level of a side,
\* and the initial zero pair
PairsWritten(side, level) ==
    {<<0, 0>>}
        \cup {<<book_log[i].price, book_log[i].quantity>> :
                i \in {j \in 1..Len(book_log) :
                          /\ book_log[j].side = side
                          /\ book_log[j].level = level}}

\* C33: for every level of a snapshot get_snapshot has returned, taken
\* concurrently with the writer or not, the (price, quantity) pair is a
\* pair written by one single update call, or the initial zero pair.
C33_NoTornLevel ==
    \A r \in Readers :
        r_pc[r] = "done" =>
            \A side \in Sides, level \in Levels :
                LET copy == r_snap[r][SnapLevels(side)][level]
                IN  <<copy.price, copy.quantity>>
                        \in PairsWritten(side, level)

\* C34: in every quiescent state of a book (no update in progress) the
\* fast reads agree with a snapshot of that state: OrderBook::best_bid()
\* equals get_snapshot().best_bid(), OrderBook::best_ask() equals
\* get_snapshot().best_ask() and the mids agree, also when a side is empty.
C34_FastReadsAgree ==
    (r_pc[1] = "done" /\ r_quiet[1] /\ w_pc = 0) =>
        /\ OrderBook_best_bid = best_bid(r_snap[1])
        /\ OrderBook_best_ask = best_ask(r_snap[1])
        /\ OrderBook_mid_price_times2 = MidPriceTimes2(r_snap[1])

\* C35: once stop() has cleared the running flag, the receive loop
\* eventually observes it and exits and stop() eventually returns, even if
\* no further datagram arrives.
C35_StopReturns == (rx_stop = "join") ~> (rx_stop = "returned")

\* C36: every push call of a scheduled producer and every pop call
\* returns, whatever the other producers do and wherever they stall, also
\* between claiming a slot and publishing it; and the consumer never finds
\* the condition of pop's retry branch true.
C36_CallsReturn ==
    /\ (mp_pc[1] # "idle") ~> (mp_pc[1] = "idle")
    /\ (mc_pc # "idle") ~> (mc_pc = "idle")
    /\ [](mc_pc = "load" =>
            MpscPopDiff(mpsc_sequence[MpscMask(mc_head)], mc_head) <= 0)

\* C36 witness: producer 2 has claimed a slot and not yet published it;
\* a push of producer 1 that read tail_ after the claim has returned false,
\* and a pop has returned false.
C36_Witness ==
    /\ mp_pc[2] \in {"write", "publish"}
    /\ mpsc_pushed = <<>>
    /\ mp_pc[1] = "idle"
    /\ mp_ret[1] = "false"
    /\ mc_pc = "idle"
    /\ mc_ret = "false"

\* C37: when threads insert the same new key concurrently, under every
\* interleaving the key is in exactly one slot once the inserts have
\* returned: with no call in progress, no key is held by two tagged slots.
C37_KeyInOneSlot ==
    (\A t \in Threads : t_pc[t] = "idle") =>
        \A k \in Keys : Cardinality({i \in Slots : MapHolds(i, k)}) <= 1

Init ==
    /\ SpscInit /\ MpscInit /\ MapInit /\ MapHistoryInit /\ PoolInit
    /\ BookInit /\ OmInit /\ StratInit /\ HdInit /\ RxInit

InitAnyState ==
    /\ SpscInit /\ MpscInit /\ MapInit /\ MapHistoryInit /\ PoolInit
    /\ BookInit /\ OmInit /\ StratInitAnyState /\ HdInit /\ RxInit

InitMapSeq ==
    /\ SpscInit /\ MpscInit /\ MapInit /\ MapSeqHistoryInit /\ PoolInit
    /\ BookInit /\ OmInit /\ StratInit /\ HdInit /\ RxInit

SpecSPSC == Init /\ [][SpscNext]_vars

SpecMPSC == Init /\ [][MpscNext]_vars

SpecMPSCFair == Init /\ [][MpscNext]_vars /\ MpscFairness

SpecMapSeq == InitMapSeq /\ [][MapSeqNext]_vars

SpecMap == Init /\ [][MapNext]_vars

SpecPool == Init /\ [][PoolNext]_vars

SpecPoolConc == Init /\ [][PoolConcNext]_vars

SpecPoolIssued == Init /\ [][PoolIssuedNext]_vars

SpecBookSeq == Init /\ [][BookSeqNext]_vars

SpecBook == Init /\ [][BookNext]_vars

SpecBookAlt == Init /\ [][BookAltNext]_vars

SpecOm == Init /\ [][OmNext]_vars

SpecOmRate == Init /\ [][OmRateNext]_vars

SpecHandler == Init /\ [][HdNext]_vars

SpecDatagram == Init /\ [][DatagramNext]_vars

SpecReceiver == Init /\ [][RxNext]_vars /\ RxFairness

SpecStrategy == Init /\ [][StratNext]_vars

SpecQuote == InitAnyState /\ [][QuoteNext]_vars

====
